---- MODULE Spec2Model ----
(***************************************************************************)
(* Two-deck playback engine (medley): the transition controller of         *)
(* Medley.cpp driving two decks.  A deck is modelled from TrackBuffer      *)
(* (loader, start/stop, block production, unload); the parts of Deck that  *)
(* Medley.cpp calls but that have no counterpart in TrackBuffer (busy      *)
(* flag, main flag, volume, fade-out anchors, loaded/started/position      *)
(* events) follow the design document.                                     *)
(*                                                                         *)
(* Every handler is a pure operator on a record of the whole program state *)
(* so that the synchronous call chains of the code (unloadTrack ->         *)
(* deckUnloaded -> loadNextTrack -> loadTrack ...) compose; an action      *)
(* applies one handler to the current state.                               *)
(***************************************************************************)
EXTENDS Integers, Sequences, FiniteSets, TLC

VARIABLES
    reader,             \* deck -> track held by the deck's reader, NoTrack if none
    loaderFile,         \* deck -> track waiting in the deck's TrackLoader
    file,               \* deck -> file the scanner will open
    isTrackLoading,     \* deck -> a load was accepted and has not completed
    playAfterLoading,   \* deck -> autoplay flag of the last accepted load
    doScan,             \* deck -> a scan is scheduled
    playing,            \* deck -> playing flag
    stopped,            \* deck -> the audio thread has seen the deck stopped
    gain,               \* deck -> volume, 0..VolScale
    main,               \* deck -> is_main flag
    nextReadPosition,   \* deck -> read position
    firstAudible,       \* deck -> firstAudibleSoundPosition
    lastAudible,        \* deck -> lastAudibleSoundPosition
    totalSamplesToPlay, \* deck -> end of content
    fadeAt,             \* deck -> position of a requested fade-out, NoFade if none
    deckQueue,          \* decks holding a loaded track, in load order
    transitionState,
    transitingDeck,
    forceFadingOut,
    keepPlaying,
    queue,              \* the external track queue
    paused,             \* mixer pause request
    stalled,            \* mixer is outputting silence
    maxTransitionTime,
    fadingCurve,
    log,                \* events delivered to the engine's listener
    lastPosition,       \* deck -> last position delivered to the listener for its track
    calls,              \* number of calls the control thread has made, per operation
    stopCall,           \* a deck's stop() in progress on the control thread: its countdown
    lastBlock,          \* what the mixer did with the last block of the device callback
    scanning,           \* deck -> file whose scan has stored one anchor and not yet the other
    locking,            \* the engine's callbackLock, each thread's place in a handler, the last access
    crashed,            \* the process has been killed by a fault
    scanOpen,           \* deck -> what opening the scanner's reader answered last
    resampling,         \* a deck's device rate, source rate and resamplers
    runtime             \* the dispatch-loop worker, its reference count and the engine instances

vars == <<reader, loaderFile, file, isTrackLoading, playAfterLoading, doScan,
          playing, stopped, gain, main, nextReadPosition, firstAudible,
          lastAudible, totalSamplesToPlay, fadeAt, deckQueue, transitionState,
          transitingDeck, forceFadingOut, keepPlaying, queue, paused, stalled,
          maxTransitionTime, fadingCurve, log, lastPosition, calls, stopCall, lastBlock,
          scanning, locking, crashed, scanOpen, resampling, runtime>>

-----------------------------------------------------------------------------
(* Bounds of the model *)

MaxQueue == 2
MaxCalls == 2
VolScale == 4

-----------------------------------------------------------------------------
(* Program constants *)

deck1 == 1
deck2 == 2
Decks == {deck1, deck2}
NoDeck == 0
NoTrack == 0
NoFade == -1
NoPosition == -1

Idle == 0
Cueing == 1
Cued == 2
Transit == 3

maxLeadingDuration == 2
CueEpsilon == 1
PreCueEpsilon == 1

(* The files the queue can hold.  Positions are in seconds, one second per *)
(* audio block.  first/last/endp are what the level searches return.       *)
(* Track 1 starts audible at once, track 2 has a long leading, track 3 is  *)
(* a file no decoder opens.                                                *)
Tracks ==
    [ t \in 1..3 |->
        CASE t = 1 -> [readable |-> TRUE,  total |-> 6, first |-> 0, last |-> 3, endp |-> 5]
          [] t = 2 -> [readable |-> TRUE,  total |-> 6, first |-> 2, last |-> 4, endp |-> 5]
          [] t = 3 -> [readable |-> FALSE, total |-> 0, first |-> 0, last |-> 0, endp |-> 0] ]

TrackIds == DOMAIN Tracks

-----------------------------------------------------------------------------
(* The program state as one record *)

State ==
    [ reader |-> reader, loaderFile |-> loaderFile, file |-> file,
      isTrackLoading |-> isTrackLoading, playAfterLoading |-> playAfterLoading,
      doScan |-> doScan, playing |-> playing, stopped |-> stopped, gain |-> gain,
      main |-> main, nextReadPosition |-> nextReadPosition,
      firstAudible |-> firstAudible, lastAudible |-> lastAudible,
      totalSamplesToPlay |-> totalSamplesToPlay, fadeAt |-> fadeAt,
      deckQueue |-> deckQueue, transitionState |-> transitionState,
      transitingDeck |-> transitingDeck, forceFadingOut |-> forceFadingOut,
      keepPlaying |-> keepPlaying, queue |-> queue, paused |-> paused,
      stalled |-> stalled, maxTransitionTime |-> maxTransitionTime,
      fadingCurve |-> fadingCurve, log |-> log, lastPosition |-> lastPosition ]

Becomes(s) ==
    /\ reader' = s.reader
    /\ loaderFile' = s.loaderFile
    /\ file' = s.file
    /\ isTrackLoading' = s.isTrackLoading
    /\ playAfterLoading' = s.playAfterLoading
    /\ doScan' = s.doScan
    /\ playing' = s.playing
    /\ stopped' = s.stopped
    /\ gain' = s.gain
    /\ main' = s.main
    /\ nextReadPosition' = s.nextReadPosition
    /\ firstAudible' = s.firstAudible
    /\ lastAudible' = s.lastAudible
    /\ totalSamplesToPlay' = s.totalSamplesToPlay
    /\ fadeAt' = s.fadeAt
    /\ deckQueue' = s.deckQueue
    /\ transitionState' = s.transitionState
    /\ transitingDeck' = s.transitingDeck
    /\ forceFadingOut' = s.forceFadingOut
    /\ keepPlaying' = s.keepPlaying
    /\ queue' = s.queue
    /\ paused' = s.paused
    /\ stalled' = s.stalled
    /\ maxTransitionTime' = s.maxTransitionTime
    /\ fadingCurve' = s.fadingCurve
    /\ log' = s.log
    /\ lastPosition' = s.lastPosition

(* no stop() is polling *)
NoStopCall == [deck |-> NoDeck, n |-> 0, slept |-> 0, pc |-> "none"]

(* no block has been processed yet *)
NoBlock == [paused |-> FALSE, pulled |-> FALSE, ramp |-> "none", frames |-> 0, numSamples |-> 0]

(* the threads that call into the engine *)
Threads == {"audio", "loader", "control"}

(* the last step was not an access to a shared resource *)
NoAccess == [thread |-> "none", kind |-> "none", resource |-> "none", held |-> FALSE]

(* callbackLock is free and no thread is inside a handler *)
NoLocking == [owner |-> "none", at |-> [t \in Threads |-> <<>>], last |-> NoAccess]

(* the most engine instances the host constructs *)
MaxInstances == 4

(* the host has constructed no engine instance: no worker, count zero *)
NoRuntime ==
    [worker |-> FALSE, workerRefCount |-> 0, instances |-> [i \in 1..MaxInstances |-> "none"]]

(* no ResamplingAudioSource *)
NoResampler == << >>

(* a deck before prepareToPlay and before its first source: sampleRate and *)
(* sourceSampleRate are 0, isPrepared is false, the pointers are null;     *)
(* newResamplerSource is the local of a setSource call under way           *)
NoResampling ==
    [sampleRate |-> 0, blockSize |-> 0, isPrepared |-> FALSE, sourceSampleRate |-> 0,
     resamplerSource |-> NoResampler, newResamplerSource |-> NoResampler,
     inSetSource |-> FALSE]

Min(a, b) == IF a < b THEN a ELSE b
Max(a, b) == IF a > b THEN a ELSE b
jlimit(lo, hi, v) == IF v < lo THEN lo ELSE IF hi < v THEN hi ELSE v

SeqRemove(q, x) == SelectSeq(q, LAMBDA e : e # x)

(* listeners.call(...): the listener records the event *)
Emit(s, e) == [s EXCEPT !.log = Append(@, e)]

-----------------------------------------------------------------------------
(* Deck accessors *)

isTrackLoaded(s, d) == s.reader[d] # NoTrack

isPlaying(s, d) == s.playing[d]

isMain(s, d) == s.main[d]

markAsMain(s, d, b) == [s EXCEPT !.main[d] = b]

setVolume(s, d, v) == [s EXCEPT !.gain[d] = v]

getLeadingDuration(s, d) == Max(0, s.firstAudible[d])

getFirstAudiblePosition(s, d) == s.firstAudible[d]

(* Transition anchors of a deck, derived from its audible region and the   *)
(* configuration; a requested fade-out re-anchors them at the position     *)
(* where it was requested.                                                 *)
getTransitionEndPosition(s, d) ==
    IF s.fadeAt[d] # NoFade
    THEN Min(s.fadeAt[d] + s.maxTransitionTime, s.totalSamplesToPlay[d])
    ELSE s.totalSamplesToPlay[d]

getTransitionStartPosition(s, d) ==
    IF s.fadeAt[d] # NoFade
    THEN s.fadeAt[d]
    ELSE s.totalSamplesToPlay[d]
         - Min(s.maxTransitionTime, Max(0, s.totalSamplesToPlay[d] - s.lastAudible[d]))

getTransitionCuePosition(s, d) ==
    IF s.fadeAt[d] # NoFade
    THEN s.fadeAt[d]
    ELSE getTransitionStartPosition(s, d) - CueEpsilon

getTransitionPreCuePosition(s, d) ==
    IF s.fadeAt[d] # NoFade
    THEN s.fadeAt[d]
    ELSE getTransitionCuePosition(s, d) - PreCueEpsilon

(* Deck::fadeOut: the deck becomes terminally outgoing from where it is *)
fadeOut(s, d) == [s EXCEPT !.fadeAt[d] = s.nextReadPosition[d]]

(* unload clears the anchors of the deck *)
clearAnchors(s, d) ==
    [s EXCEPT !.firstAudible[d] = 0, !.lastAudible[d] = 0,
              !.totalSamplesToPlay[d] = 0, !.fadeAt[d] = NoFade]

(* unload during loading interrupts the loader; the pending file is dropped *)
cancelLoading(s, d) ==
    [s EXCEPT !.loaderFile[d] = NoTrack, !.isTrackLoading[d] = FALSE]

-----------------------------------------------------------------------------
(* Engine accessors *)

getMainDeck(s) == IF s.deckQueue = <<>> THEN NoDeck ELSE Head(s.deckQueue)

isDeckPlaying(s) == isPlaying(s, deck1) \/ isPlaying(s, deck2)

getAvailableDeck(s) ==
    IF ~isTrackLoaded(s, deck1) THEN deck1
    ELSE IF ~isTrackLoaded(s, deck2) THEN deck2 ELSE NoDeck

getAnotherDeck(s, from) ==
    IF from = NoDeck THEN getAvailableDeck(s)
    ELSE IF from = deck1 THEN deck2 ELSE deck1

(* fadingFactor = 1000 / (((100 - fadingCurve) / 100 * 999) + 1) *)
fadingFactor(s) == 1000 \div ((((100 - s.fadingCurve) * 999) \div 100) + 1)

(* pow(x, k) for x in [0, 1] represented as 0..VolScale *)
RECURSIVE pow(_, _)
pow(x, k) == IF k <= 0 THEN VolScale ELSE (x * pow(x, k - 1)) \div VolScale

-----------------------------------------------------------------------------
(* Engine callbacks that only notify the listener *)

deckStarted(s, sender) == Emit(s, <<"started", sender>>)

deckFinished(s, sender) == Emit(s, <<"finished", sender>>)

(* mutant: the head of deck_queue is not marked as main *)
deckLoaded_NotMarked(s, sender) ==
    LET s1 == [s EXCEPT !.deckQueue = Append(@, sender)]
    IN  [Emit(s1, <<"loaded", sender>>) EXCEPT !.lastPosition[sender] = NoPosition]

deckLoaded(s, sender) ==
    LET s1 == [s EXCEPT !.deckQueue = Append(@, sender)]
        s2 == markAsMain(s1, Head(s1.deckQueue), TRUE)
    IN  [Emit(s2, <<"loaded", sender>>) EXCEPT !.lastPosition[sender] = NoPosition]

-----------------------------------------------------------------------------
(* Deck operations *)

(* TrackBuffer::start; the deck reports started to its listener *)
start(s, d) ==
    IF ~s.playing[d] /\ s.reader[d] # NoTrack
    THEN deckStarted([s EXCEPT !.playing[d] = TRUE, !.stopped[d] = FALSE], d)
    ELSE s

(* TrackBuffer::stop called from inside the deck's own audio block: the    *)
(* poll for the stopped flag runs out, the flag is left as it is           *)
stop(s, d) ==
    IF s.playing[d] THEN [s EXCEPT !.playing[d] = FALSE] ELSE s

RECURSIVE deckUnloaded(_, _)

(* mutant: unloaded is reported whether or not anything was released *)
unloadTrackInternal_AlwaysNotifies(s, d) ==
    deckUnloaded(clearAnchors([s EXCEPT !.playing[d] = FALSE, !.reader[d] = NoTrack], d), d)

(* nothing is released on a deck that holds no track: playing = false and  *)
(* no event                                                                *)
unloadTrackInternal(s, d) ==
    IF s.reader[d] # NoTrack
    THEN deckUnloaded(clearAnchors([s EXCEPT !.playing[d] = FALSE, !.reader[d] = NoTrack], d), d)
    ELSE [s EXCEPT !.playing[d] = FALSE]

(* TrackBuffer::setSource(nullptr) *)
releaseSource(s, d) ==
    IF s.reader[d] = NoTrack THEN s ELSE [s EXCEPT !.playing[d] = FALSE]

unloadTrack(s, d) == unloadTrackInternal(releaseSource(cancelLoading(s, d), d), d)

(* Deck::loadTrack: refused while loading and for a file no decoder opens; *)
(* otherwise the file is handed to the loader                              *)
loadTrack(s, d, track, play) ==
    IF s.isTrackLoading[d] \/ ~Tracks[track].readable
    THEN [s |-> s, ok |-> FALSE]
    ELSE [s |-> [s EXCEPT !.playAfterLoading[d] = play,
                           !.loaderFile[d] = track,
                           !.file[d] = track,
                           !.isTrackLoading[d] = TRUE],
          ok |-> TRUE]

(* mutant: one track is fetched and handed to the deck, whatever the deck   *)
(* answers (loadNextTrack before it looped over the queue)                 *)
fetchAndLoad_FirstOnly(s, deck, play) ==
    IF Len(s.queue) > 0
    THEN [s |-> loadTrack([s EXCEPT !.queue = Tail(@)], deck, Head(s.queue), play).s,
          ok |-> TRUE]
    ELSE [s |-> s, ok |-> FALSE]

RECURSIVE fetchAndLoad(_, _, _)
fetchAndLoad(s, deck, play) ==
    IF Len(s.queue) > 0
    THEN LET track == Head(s.queue)
             r == loadTrack([s EXCEPT !.queue = Tail(@)], deck, track, play)
         IN  IF r.ok THEN r ELSE fetchAndLoad(r.s, deck, play)
    ELSE [s |-> s, ok |-> FALSE]

loadNextTrack(s, currentDeck, play) ==
    LET deck == getAnotherDeck(s, currentDeck)
    IN  IF deck = NoDeck THEN [s |-> s, ok |-> FALSE]
        ELSE LET s1 == IF s.isTrackLoading[deck] THEN unloadTrack(s, deck) ELSE s
             IN  fetchAndLoad(s1, deck, play)

(* mutant: the next deck is started without asking whether it is loaded,  *)
(* as a deck that starts whatever it is told to                            *)
transitingDeckUnloaded_StartsBlindly(s, sender) ==
    IF sender = s.transitingDeck
    THEN LET nextDeck == getAnotherDeck(s, s.transitingDeck)
             a == IF s.transitionState = Cued
                  THEN deckStarted([s EXCEPT !.playing[nextDeck] = TRUE,
                                             !.stopped[nextDeck] = FALSE], nextDeck)
                  ELSE s
         IN  [a EXCEPT !.transitionState = Idle,
                       !.transitingDeck = NoDeck,
                       !.forceFadingOut = IF @ > 0 THEN @ - 1 ELSE @]
    ELSE s

(* mutant: the transiting deck unloads and the engine stays in transit *)
transitingDeckUnloaded_StaysInTransit(s, sender) ==
    IF sender = s.transitingDeck
    THEN [s EXCEPT !.forceFadingOut = IF @ > 0 THEN @ - 1 ELSE @]
    ELSE s

(* deckUnloaded, first block: the transiting deck went away *)
transitingDeckUnloaded(s, sender) ==
    IF sender = s.transitingDeck
    THEN LET nextDeck == getAnotherDeck(s, s.transitingDeck)
             a == IF s.transitionState = Cued /\ isTrackLoaded(s, nextDeck)
                  THEN start(s, nextDeck) ELSE s
         IN  [a EXCEPT !.transitionState = Idle,
                       !.transitingDeck = NoDeck,
                       !.forceFadingOut = IF @ > 0 THEN @ - 1 ELSE @]
    ELSE s

(* mutant: the unloaded deck stays in deck_queue *)
removeFromDeckQueue_Kept(s, sender) ==
    LET s2 == markAsMain(s, sender, FALSE)
        s3 == IF s2.deckQueue # <<>> THEN markAsMain(s2, Head(s2.deckQueue), TRUE) ELSE s2
    IN  [Emit(s3, <<"unloaded", sender>>) EXCEPT !.lastPosition[sender] = NoPosition]

(* deckUnloaded, second block: deck_queue and the main flag *)
removeFromDeckQueue(s, sender) ==
    LET s2 == [markAsMain(s, sender, FALSE) EXCEPT !.deckQueue = SeqRemove(@, sender)]
        s3 == IF s2.deckQueue # <<>> THEN markAsMain(s2, Head(s2.deckQueue), TRUE) ELSE s2
    IN  [Emit(s3, <<"unloaded", sender>>) EXCEPT !.lastPosition[sender] = NoPosition]

(* deckUnloaded, third block: keep playing while the queue has tracks *)
continuePlaying(s) ==
    IF s.keepPlaying /\ ~isDeckPlaying(s)
    THEN LET shouldContinuePlaying == Len(s.queue) > 0
             s1 == [s EXCEPT !.keepPlaying = shouldContinuePlaying]
         IN  IF shouldContinuePlaying THEN loadNextTrack(s1, NoDeck, TRUE).s ELSE s1
    ELSE s

deckUnloaded(s, sender) ==
    continuePlaying(removeFromDeckQueue(transitingDeckUnloaded(s, sender), sender))

-----------------------------------------------------------------------------
(* Loader and scanner of a deck *)

(* mutant: the position is stored whether or not the deck has a source *)
setPosition_Unguarded(s, d, newPosition) ==
    [s EXCEPT !.nextReadPosition[d] = newPosition]

(* TrackBuffer::setPosition / setNextReadPosition *)
setPosition(s, d, newPosition) ==
    IF s.reader[d] # NoTrack THEN [s EXCEPT !.nextReadPosition[d] = newPosition] ELSE s

(* loadTrackInternal, the end: if (playAfterLoading) start() *)
startAfterLoading(s, d) == IF s.playAfterLoading[d] THEN start(s, d) ELSE s

(* TrackBuffer::loadTrackInternal, the first level search answering found *)
loadTrackInternalWith(s, d, found) ==
    LET track == s.loaderFile[d]
        first == Max(0, found)
        s2 == [unloadTrackInternal(s, d) EXCEPT
                         !.reader[d] = track,
                         !.firstAudible[d] = first,
                         !.totalSamplesToPlay[d] = Tracks[track].total,
                         !.lastAudible[d] = Tracks[track].total,
                         !.nextReadPosition[d] = first,
                         !.playing[d] = FALSE,
                         !.doScan[d] = TRUE]
    IN  [startAfterLoading(deckLoaded(s2, d), d) EXCEPT
                         !.isTrackLoading[d] = FALSE, !.loaderFile[d] = NoTrack]

(* TrackLoader::useTimeSlice -> TrackBuffer::loadTrackInternal *)
loadTrackInternal(s, d) == loadTrackInternalWith(s, d, Tracks[s.loaderFile[d]].first)

(* mutant: the answer of the silence search is stored without comparing it *)
(* with the first audible position                                         *)
scanTrackInternalWith_Unguarded(s, d, silencePosition, endPosition) ==
    LET s1 == IF s.file[d] # NoTrack
              THEN IF endPosition > silencePosition
                   THEN [s EXCEPT !.lastAudible[d] = silencePosition,
                                  !.totalSamplesToPlay[d] = endPosition]
                   ELSE [s EXCEPT !.lastAudible[d] = silencePosition]
              ELSE s
    IN  [s1 EXCEPT !.doScan[d] = FALSE]

(* TrackBuffer::scanTrackInternal, the two level searches answering        *)
(* silencePosition and endPosition                                         *)
scanTrackInternalWith(s, d, silencePosition, endPosition) ==
    LET s1 == IF s.file[d] # NoTrack /\ silencePosition > s.firstAudible[d]
              THEN IF endPosition > silencePosition
                   THEN [s EXCEPT !.lastAudible[d] = silencePosition,
                                  !.totalSamplesToPlay[d] = endPosition]
                   ELSE [s EXCEPT !.lastAudible[d] = silencePosition]
              ELSE s
    IN  [s1 EXCEPT !.doScan[d] = FALSE]

(* TrackScanningScheduler::useTimeSlice -> TrackBuffer::scanTrackInternal *)
scanTrackInternal(s, d) ==
    scanTrackInternalWith(s, d, Tracks[s.file[d]].last, Tracks[s.file[d]].endp)

-----------------------------------------------------------------------------
(* Transition controller *)

(* jlimit(0.0, 1.0, (position - start) / duration); a zero duration gives  *)
(* +inf (clamped to 1) after the start and NaN, which compares false with  *)
(* everything, at the start                                                *)
NaN == -1

transitionProgress(position, transitionStartPos, transitionDuration) ==
    IF transitionDuration > 0
    THEN jlimit(0, VolScale, ((position - transitionStartPos) * VolScale) \div transitionDuration)
    ELSE IF transitionDuration < 0 THEN 0
    ELSE IF position > transitionStartPos THEN VolScale ELSE NaN

(* mutant: pre_cue_next is emitted whenever the position is past the       *)
(* pre-cue point, not only when leaving idle                               *)
preCueNext_Always(s, sender, position) ==
    IF position > getTransitionPreCuePosition(s, sender)
    THEN Emit([s EXCEPT !.transitionState = Cueing], <<"preCueNext", sender>>)
    ELSE s

(* deckPosition: idle -> cueing past the pre-cue point *)
preCueNext(s, sender, position) ==
    IF s.transitionState = Idle /\ position > getTransitionPreCuePosition(s, sender)
    THEN Emit([s EXCEPT !.transitionState = Cueing], <<"preCueNext", sender>>)
    ELSE s

(* deckPosition past the cue point, after loadNextTrack returned r: done   *)
(* is TRUE when the handler returns because no track could be cued         *)
cued(r, sender, nextDeck) ==
    IF ~r.ok /\ r.s.forceFadingOut <= 0
    THEN [s |-> r.s, done |-> TRUE]
    ELSE LET s2 == [r.s EXCEPT !.transitionState = Cued, !.transitingDeck = sender]
         IN  [s |-> IF ~isMain(s2, sender) /\ isTrackLoaded(s2, nextDeck)
                       /\ ~isPlaying(s2, nextDeck)
                    THEN deckFinished(s2, nextDeck) ELSE s2,
              done |-> FALSE]

(* first two blocks of deckPosition: pre-cue and cue *)
cueNext(s, sender, position) ==
    IF position > getTransitionCuePosition(s, sender)
    THEN cued(loadNextTrack(preCueNext(s, sender, position), sender, FALSE),
              sender, getAnotherDeck(s, sender))
    ELSE [s |-> preCueNext(s, sender, position), done |-> FALSE]

(* mutant: the next deck keeps the volume it was left with *)
enterTransit_VolumeKept(s, nextDeck, leadingDuration) ==
    IF s.transitionState = Cued /\ isTrackLoaded(s, nextDeck)
    THEN LET a == [s EXCEPT !.transitionState = Transit]
             b == IF a.forceFadingOut > 0 /\ leadingDuration >= maxLeadingDuration
                  THEN setPosition(a, nextDeck,
                           getFirstAudiblePosition(a, nextDeck)
                               + leadingDuration - maxLeadingDuration)
                  ELSE a
         IN  start(b, nextDeck)
    ELSE s

(* mutant: transit is entered whether or not the next deck is loaded *)
enterTransit_Unchecked(s, nextDeck, leadingDuration) ==
    IF s.transitionState = Cued
    THEN LET a == setVolume([s EXCEPT !.transitionState = Transit], nextDeck, VolScale)
             b == IF a.forceFadingOut > 0 /\ leadingDuration >= maxLeadingDuration
                  THEN setPosition(a, nextDeck,
                           getFirstAudiblePosition(a, nextDeck)
                               + leadingDuration - maxLeadingDuration)
                  ELSE a
         IN  start(b, nextDeck)
    ELSE s

(* deckPosition: cued -> transit once the next deck is loaded *)
enterTransit(s, nextDeck, leadingDuration) ==
    IF s.transitionState = Cued /\ isTrackLoaded(s, nextDeck)
    THEN LET a == setVolume([s EXCEPT !.transitionState = Transit], nextDeck, VolScale)
             b == IF a.forceFadingOut > 0 /\ leadingDuration >= maxLeadingDuration
                  THEN setPosition(a, nextDeck,
                           getFirstAudiblePosition(a, nextDeck)
                               + leadingDuration - maxLeadingDuration)
                  ELSE a
         IN  start(b, nextDeck)
    ELSE s

(* deckPosition in transit: fade in a next deck with a long leading *)
fadeInNext(s, nextDeck, position, transitionStartPos, leadingDuration) ==
    IF s.transitionState = Transit /\ leadingDuration >= maxLeadingDuration
    THEN LET fadeInProgress ==
                 jlimit(VolScale \div 4, VolScale,
                        ((position - (transitionStartPos - leadingDuration)) * VolScale)
                            \div leadingDuration)
         IN  setVolume(s, nextDeck, pow(fadeInProgress, fadingFactor(s)))
    ELSE s

(* third block: start the next deck and fade it in *)
transit(s, sender, position, transitionStartPos, leadingDuration) ==
    fadeInNext(enterTransit(s, getAnotherDeck(s, sender), leadingDuration),
               getAnotherDeck(s, sender), position, transitionStartPos, leadingDuration)

(* mutant: the ramp runs upwards, progress^factor *)
fadeOutSender_Rising(s, sender, position, transitionStartPos, transitionEndPos) ==
    LET transitionDuration == transitionEndPos - transitionStartPos
        progress == transitionProgress(position, transitionStartPos, transitionDuration)
        s1 == IF transitionDuration > 0
              THEN setVolume(s, sender, pow(progress, fadingFactor(s)))
              ELSE s
    IN  IF s1.transitionState # Idle /\ position > transitionEndPos /\ progress >= VolScale
        THEN stop(s1, sender)
        ELSE s1

(* mutant: the ramp is applied whatever the transition duration is (the    *)
(* controller before it tested the duration)                               *)
fadeOutSender_AlwaysRamps(s, sender, position, transitionStartPos, transitionEndPos) ==
    LET transitionDuration == transitionEndPos - transitionStartPos
        progress == transitionProgress(position, transitionStartPos, transitionDuration)
        s1 == IF progress # NaN
              THEN setVolume(s, sender, pow(VolScale - progress, fadingFactor(s)))
              ELSE s
    IN  IF s1.transitionState # Idle /\ position > transitionEndPos /\ progress >= VolScale
        THEN stop(s1, sender)
        ELSE s1

(* mutant: the sender is faded out only while the state is transit *)
fadeOutSender_InTransitOnly(s, sender, position, transitionStartPos, transitionEndPos) ==
    LET transitionDuration == transitionEndPos - transitionStartPos
        progress == transitionProgress(position, transitionStartPos, transitionDuration)
        s1 == IF transitionDuration > 0 /\ s.transitionState = Transit
              THEN setVolume(s, sender, pow(VolScale - progress, fadingFactor(s)))
              ELSE s
    IN  IF s1.transitionState # Idle /\ position > transitionEndPos /\ progress >= VolScale
        THEN stop(s1, sender)
        ELSE s1

(* fourth block: fade the sender out and stop it past the transition end *)
fadeOutSender(s, sender, position, transitionStartPos, transitionEndPos) ==
    LET transitionDuration == transitionEndPos - transitionStartPos
        progress == transitionProgress(position, transitionStartPos, transitionDuration)
        s1 == IF transitionDuration > 0
              THEN setVolume(s, sender, pow(VolScale - progress, fadingFactor(s)))
              ELSE s
    IN  IF s1.transitionState # Idle /\ position > transitionEndPos /\ progress >= VolScale
        THEN stop(s1, sender)
        ELSE s1

(* deckPosition after its cue blocks, with the anchors read on entry *)
transitAndFadeOut(c, sender, position, transitionStartPos, transitionEndPos, leadingDuration) ==
    IF c.done THEN c.s
    ELSE LET s1 == IF position > transitionStartPos - leadingDuration
                   THEN transit(c.s, sender, position, transitionStartPos, leadingDuration)
                   ELSE c.s
         IN  IF position >= transitionStartPos
             THEN fadeOutSender(s1, sender, position, transitionStartPos, transitionEndPos)
             ELSE s1

controlTransition(s, sender, position) ==
    IF isMain(s, sender)
    THEN transitAndFadeOut(IF s.transitionState < Cued
                           THEN cueNext(s, sender, position)
                           ELSE [s |-> s, done |-> FALSE],
                           sender, position,
                           getTransitionStartPosition(s, sender),
                           getTransitionEndPosition(s, sender),
                           getLeadingDuration(s, getAnotherDeck(s, sender)))
    ELSE IF s.deckQueue # <<>> /\ Head(s.deckQueue) = sender
         THEN markAsMain(s, sender, TRUE)
         ELSE s

(* the listener is told the position, then the controller acts on it *)
deckPosition(s, sender, position) ==
    controlTransition([s EXCEPT !.lastPosition[sender] = position], sender, position)

-----------------------------------------------------------------------------
(* Audio thread *)

(* the deck reports its position after the pull, while it is playing *)
positionEvent(s, d) ==
    IF s.playing[d] THEN deckPosition(s, d, s.nextReadPosition[d]) ELSE s

(* end of content: playing = false; then stopped = !playing *)
endOfStream(s, d) ==
    IF s.nextReadPosition[d] > s.totalSamplesToPlay[d]
    THEN [s EXCEPT !.playing[d] = FALSE, !.stopped[d] = TRUE]
    ELSE [s EXCEPT !.stopped[d] = ~s.playing[d]]

(* mutant: the deck is unloaded first and reports finished afterwards *)
finishedPlaying_UnloadFirst(wasPlaying, s, d) ==
    IF wasPlaying /\ ~s.playing[d]
    THEN deckFinished(unloadTrackInternal(s, d), d)
    ELSE s

(* mutant: the deck reports finished and keeps its track *)
finishedPlaying_KeepsTrack(wasPlaying, s, d) ==
    IF wasPlaying /\ ~s.playing[d]
    THEN deckFinished(s, d)
    ELSE s

(* the deck was playing when the block began and is not any more *)
finishedPlaying(wasPlaying, s, d) ==
    IF wasPlaying /\ ~s.playing[d]
    THEN unloadTrackInternal(deckFinished(s, d), d)
    ELSE s

(* TrackBuffer::getNextAudioBlock; the deck reports its position while it  *)
(* is playing.  One block is one second, so the read position exceeds      *)
(* totalSamplesToPlay + 1 sample exactly when it exceeds totalSamplesToPlay*)
getNextAudioBlock(s, d) ==
    finishedPlaying(s.playing[d],
                    IF s.reader[d] # NoTrack /\ ~s.stopped[d]
                    THEN endOfStream(positionEvent([s EXCEPT !.nextReadPosition[d] = @ + 1], d), d)
                    ELSE [s EXCEPT !.stopped[d] = TRUE],
                    d)

(* MixerAudioSource::getNextAudioBlock pulls the inputs in the order added *)
mixInputs(s) == getNextAudioBlock(getNextAudioBlock(s, deck1), deck2)

(* mutant: the mixer never stalls *)
stallIfPaused_Never(s) == s

(* after the mix: a paused mixer ramps the block down and stalls *)
stallIfPaused(s) == IF s.paused THEN [s EXCEPT !.stalled = TRUE] ELSE s

(* mutant: a stalled mixer keeps pulling the decks while it is paused *)
Mixer_getNextAudioBlock_PullsWhileStalled(s) ==
    IF ~s.stalled
    THEN stallIfPaused(mixInputs(s))
    ELSE IF ~s.paused
         THEN [mixInputs(s) EXCEPT !.stalled = FALSE]
         ELSE mixInputs(s)

Mixer_getNextAudioBlock(s) ==
    IF ~s.stalled
    THEN stallIfPaused(mixInputs(s))
    ELSE IF ~s.paused
         THEN [mixInputs(s) EXCEPT !.stalled = FALSE]
         ELSE s

-----------------------------------------------------------------------------
(* Control thread *)

(* TrackBuffer::stop called from the control thread: it clears playing and *)
(* polls the stopped flag.  The audio thread acknowledges in its next      *)
(* block, or not within the timeout, or it was inside a block of this deck *)
(* when playing was cleared and then finishes and unloads the deck itself. *)
StopOutcomes == {"acked", "timeout", "midblock"}

stopAndWait(s, d, outcome) ==
    IF s.playing[d]
    THEN LET s1 == [s EXCEPT !.playing[d] = FALSE]
         IN  CASE outcome = "acked" -> [s1 EXCEPT !.stopped[d] = TRUE]
               [] outcome = "timeout" -> s1
               [] outcome = "midblock" ->
                      unloadTrackInternal(deckFinished([s1 EXCEPT !.stopped[d] = TRUE], d), d)
    ELSE s

togglePause(s) == [s EXCEPT !.paused = ~@]

Medley_play(s) ==
    LET s1 == IF ~isDeckPlaying(s) THEN loadNextTrack(s, NoDeck, TRUE).s ELSE s
    IN  [s1 EXCEPT !.keepPlaying = TRUE, !.paused = FALSE]

Medley_stop(s, o1, o2) ==
    LET s1 == [s EXCEPT !.keepPlaying = FALSE]
        s2 == stopAndWait(s1, deck1, o1)
        s3 == stopAndWait(s2, deck2, o2)
        s4 == unloadTrack(s3, deck1)
    IN  unloadTrack(s4, deck2)

(* fadeOutMainDeck, the end: fade out the deck that is main by now *)
fadeOutDeck(s) ==
    IF getMainDeck(s) # NoDeck
    THEN [fadeOut(s, getMainDeck(s)) EXCEPT !.paused = FALSE]
    ELSE s

(* mutant: a fade-out during a transit returns to idle and keeps the      *)
(* outgoing deck                                                           *)
fadeOutMainDeck_KeepsDeck(s) ==
    IF getMainDeck(s) # NoDeck
    THEN IF s.transitionState = Transit
         THEN fadeOutDeck([s EXCEPT !.forceFadingOut = @ + 1, !.transitionState = Idle])
         ELSE fadeOutDeck([s EXCEPT !.forceFadingOut = @ + 1])
    ELSE s

fadeOutMainDeck(s) ==
    IF getMainDeck(s) # NoDeck
    THEN IF s.transitionState = Transit
         THEN fadeOutDeck([unloadTrack([s EXCEPT !.forceFadingOut = @ + 1], getMainDeck(s))
                              EXCEPT !.transitionState = Idle])
         ELSE fadeOutDeck([s EXCEPT !.forceFadingOut = @ + 1])
    ELSE s

setPositionInSeconds(s, time) ==
    LET deck == getMainDeck(s)
    IN  IF deck # NoDeck THEN setPosition(s, deck, time) ELSE s

-----------------------------------------------------------------------------
(* The state machine *)

SeekTargets == {0, 3}
QueueContents == UNION { [1..n -> TrackIds] : n \in 0..MaxQueue }
TransitionTimes == {0, 2}
FadingCurves == {50}

InitWith(queues) ==
    /\ reader = [d \in Decks |-> NoTrack]
    /\ loaderFile = [d \in Decks |-> NoTrack]
    /\ file = [d \in Decks |-> NoTrack]
    /\ isTrackLoading = [d \in Decks |-> FALSE]
    /\ playAfterLoading = [d \in Decks |-> FALSE]
    /\ doScan = [d \in Decks |-> FALSE]
    /\ playing = [d \in Decks |-> FALSE]
    /\ stopped = [d \in Decks |-> TRUE]
    /\ gain = [d \in Decks |-> VolScale]
    /\ main = [d \in Decks |-> FALSE]
    /\ nextReadPosition = [d \in Decks |-> 0]
    /\ firstAudible = [d \in Decks |-> 0]
    /\ lastAudible = [d \in Decks |-> 0]
    /\ totalSamplesToPlay = [d \in Decks |-> 0]
    /\ fadeAt = [d \in Decks |-> NoFade]
    /\ deckQueue = <<>>
    /\ transitionState = Idle
    /\ transitingDeck = NoDeck
    /\ forceFadingOut = 0
    /\ keepPlaying = FALSE
    /\ queue \in queues
    /\ paused = FALSE
    /\ stalled = FALSE
    /\ maxTransitionTime \in TransitionTimes
    /\ fadingCurve \in FadingCurves
    /\ log = <<>>
    /\ lastPosition = [d \in Decks |-> NoPosition]
    /\ calls = [op \in {"play", "stop", "fadeOut", "seek", "togglePause"} |-> 0]
    /\ stopCall = NoStopCall
    /\ lastBlock = NoBlock
    /\ scanning = [d \in Decks |-> NoTrack]
    /\ locking = NoLocking
    /\ crashed = FALSE
    /\ scanOpen = [d \in Decks |-> "none"]
    /\ resampling = NoResampling
    /\ runtime = NoRuntime

(* the state after construction, with any queue of up to MaxQueue files *)
Init == InitWith(QueueContents)

(* the control thread makes at most MaxCalls calls *)
MayCall ==
    calls["play"] + calls["stop"] + calls["fadeOut"] + calls["seek"] + calls["togglePause"]
        < MaxCalls

Called(op) == calls' = [calls EXCEPT ![op] = @ + 1] /\ UNCHANGED <<stopCall, lastBlock, scanning, locking, crashed, scanOpen, resampling, runtime>>

Play ==
    /\ MayCall
    /\ Becomes(Medley_play(State))
    /\ Called("play")

Stop ==
    /\ MayCall
    /\ \E o1, o2 \in StopOutcomes : Becomes(Medley_stop(State, o1, o2))
    /\ Called("stop")

FadeOut ==
    /\ MayCall
    /\ Becomes(fadeOutMainDeck(State))
    /\ Called("fadeOut")

Seek ==
    /\ MayCall
    /\ \E t \in SeekTargets : Becomes(setPositionInSeconds(State, t))
    /\ Called("seek")

TogglePause ==
    /\ MayCall
    /\ Becomes(togglePause(State))
    /\ Called("togglePause")

AudioCallback ==
    /\ Becomes(Mixer_getNextAudioBlock(State))
    /\ UNCHANGED <<calls, stopCall, lastBlock, scanning, locking, crashed, scanOpen, resampling, runtime>>

LoaderTimeSlice ==
    /\ \E d \in Decks : loaderFile[d] # NoTrack /\ Becomes(loadTrackInternal(State, d))
    /\ UNCHANGED <<calls, stopCall, lastBlock, scanning, locking, crashed, scanOpen, resampling, runtime>>

ScannerTimeSlice ==
    /\ \E d \in Decks : doScan[d] /\ Becomes(scanTrackInternal(State, d))
    /\ UNCHANGED <<calls, stopCall, lastBlock, scanning, locking, crashed, scanOpen, resampling, runtime>>

Next ==
    \/ Play
    \/ Stop
    \/ FadeOut
    \/ Seek
    \/ TogglePause
    \/ AudioCallback
    \/ LoaderTimeSlice
    \/ ScannerTimeSlice

Spec == Init /\ [][Next]_vars

-----------------------------------------------------------------------------
(* What the listener has seen *)

LogCount(e) == Cardinality({i \in DOMAIN log : log[i] = e})

LastIndex(e) ==
    LET at == {i \in DOMAIN log : log[i] = e}
    IN  IF at = {} THEN 0 ELSE CHOOSE i \in at : \A j \in at : j <= i

FirstIndex(e) ==
    LET at == {i \in DOMAIN log : log[i] = e}
    IN  IF at = {} THEN 0 ELSE CHOOSE i \in at : \A j \in at : i <= j

LoadedDecks == {d \in Decks : reader[d] # NoTrack}

MainDecks == {d \in Decks : main[d]}

NothingLoadedOrLoading ==
    \A d \in Decks : reader[d] = NoTrack /\ ~isTrackLoading[d] /\ loaderFile[d] = NoTrack

PreCueSinceLoad(d) ==
    Cardinality({i \in DOMAIN log : log[i] = <<"preCueNext", d>> /\ i > LastIndex(<<"loaded", d>>)})

InFadeRange(s, d, position) ==
    /\ position # NoPosition
    /\ getTransitionStartPosition(s, d) <= position
    /\ position <= getTransitionEndPosition(s, d)

(* two successive position events of the outgoing deck m, both in transit *)
(* and both inside [transition_start, transition_end]                     *)
NextPositionEvent(m) ==
    /\ transitionState = Transit /\ transitionState' = Transit
    /\ transitingDeck = m /\ transitingDeck' = m
    /\ lastPosition'[m] # lastPosition[m]
    /\ InFadeRange(State, m, lastPosition[m])
    /\ InFadeRange(State', m, lastPosition'[m])

-----------------------------------------------------------------------------
(* C1: once stop() has returned, both decks are unloaded, keep_playing is  *)
(* false and transition_state is idle, from whatever state it was called.  *)
C1_StopLeavesIdle ==
    [][Stop => (/\ \A d \in Decks : reader'[d] = NoTrack
                /\ ~keepPlaying'
                /\ transitionState' = Idle)]_vars

(* C2: with an empty queue and no forced fade, a position event of the     *)
(* main deck loads nothing and leaves the state at most cueing; when the   *)
(* deck has played to its end and unloaded, the state is idle.             *)
C2_EmptyQueueEndsIdle ==
    [][\A m \in Decks :
          (/\ AudioCallback
           /\ main[m] /\ playing[m]
           /\ queue = <<>> /\ forceFadingOut = 0
           /\ transitionState < Cued)
          => /\ loaderFile' = loaderFile
             /\ isTrackLoading' = isTrackLoading
             /\ transitionState' < Cued
             /\ reader'[m] = NoTrack => transitionState' = Idle]_vars

(* C3: exactly one deck is main if some deck holds a track, none otherwise *)
C3_OneMainIffLoaded ==
    /\ LoadedDecks # {} => Cardinality(MainDecks) = 1
    /\ LoadedDecks = {} => MainDecks = {}

(* the first deck has unloaded and the second, still loaded, took over *)
C3_MainHandedOver ==
    /\ LogCount(<<"unloaded", deck1>>) > 0
    /\ reader[deck1] = NoTrack
    /\ reader[deck2] # NoTrack
    /\ MainDecks = {deck2}

(* C4: deck_queue lists exactly the loaded decks, once each, in the order  *)
(* they were loaded, and its head is the only main deck.                   *)
C4_DeckQueueIsLoadOrder ==
    /\ {deckQueue[i] : i \in DOMAIN deckQueue} = LoadedDecks
    /\ Len(deckQueue) = Cardinality(LoadedDecks)
    /\ \A i, j \in DOMAIN deckQueue :
           i < j => LastIndex(<<"loaded", deckQueue[i]>>) < LastIndex(<<"loaded", deckQueue[j]>>)
    /\ MainDecks = IF deckQueue = <<>> THEN {} ELSE {Head(deckQueue)}

(* the first deck has been unloaded and loaded again behind the second: *)
(* the second deck is the head and the main                             *)
C4_SecondDeckLeads ==
    /\ deckQueue = <<deck2, deck1>>
    /\ LogCount(<<"unloaded", deck1>>) > 0
    /\ main[deck2] /\ ~main[deck1]

(* C5: in transit both decks hold a loaded track *)
C5_TransitBothLoaded ==
    transitionState = Transit => LoadedDecks = Decks

(* C5 as amended: the outgoing deck is loaded and main throughout transit, *)
(* and both decks are loaded when transit is entered.                      *)
C5_TransitEntersWithBothLoaded ==
    [][/\ transitionState' = Transit =>
              /\ transitingDeck' \in Decks
              /\ reader'[transitingDeck'] # NoTrack
              /\ main'[transitingDeck']
       /\ (transitionState # Transit /\ transitionState' = Transit) => LoadedDecks' = Decks]_vars

(* transit has been entered: both decks loaded and playing *)
C5_InTransit ==
    /\ transitionState = Transit
    /\ LoadedDecks = Decks
    /\ \A d \in Decks : playing[d]

(* C6: in transit, between two position events of the outgoing deck that   *)
(* both lie in [transition_start, transition_end], its volume does not     *)
(* increase.                                                               *)
C6_FadeOutNeverIncreases ==
    [][\A m \in Decks : NextPositionEvent(m) => gain'[m] <= gain[m]]_vars

(* C6 as amended: the same, for positions that do not go back (no seek     *)
(* between the two events).                                                *)
C6_FadeOutMonotoneBetweenSeeks ==
    [][\A m \in Decks :
          (NextPositionEvent(m) /\ lastPosition'[m] >= lastPosition[m])
          => gain'[m] <= gain[m]]_vars

(* the outgoing deck is part-way down its ramp *)
C6_FadingOut ==
    /\ transitionState = Transit
    /\ transitingDeck \in Decks
    /\ InFadeRange(State, transitingDeck, lastPosition[transitingDeck])
    /\ lastPosition[transitingDeck] > getTransitionStartPosition(State, transitingDeck)
    /\ gain[transitingDeck] < VolScale

(* C7: an incoming deck with a short leading plays at full volume during transit *)
C7_ShortLeadingFullVolume ==
    \A d \in Decks :
        (/\ transitionState = Transit
         /\ d # transitingDeck
         /\ reader[d] # NoTrack
         /\ getLeadingDuration(State, d) < maxLeadingDuration)
        => gain[d] = VolScale

(* a deck that was faded out before is the incoming one, with a short    *)
(* leading, and plays while the outgoing deck has been turned down        *)
C7_ShortLeadingIncoming ==
    \E d \in Decks :
        /\ transitionState = Transit
        /\ transitingDeck \in Decks \ {d}
        /\ LogCount(<<"unloaded", d>>) > 0
        /\ reader[d] # NoTrack /\ playing[d]
        /\ lastPosition[d] # NoPosition
        /\ getLeadingDuration(State, d) < maxLeadingDuration
        /\ gain[transitingDeck] < VolScale

(* C8: a track emits pre_cue_next at most once while it is loaded *)
C8_PreCueAtMostOnce ==
    \A d \in Decks : reader[d] # NoTrack => PreCueSinceLoad(d) <= 1

(* after its pre_cue_next a deck was taken back before the pre-cue point *)
(* by a seek and has delivered a position event there                    *)
C8_SeekBackAfterPreCue ==
    \E d \in Decks :
        /\ reader[d] # NoTrack /\ doScan[d] = FALSE
        /\ PreCueSinceLoad(d) = 1
        /\ calls["seek"] > 0 /\ calls["fadeOut"] = 0
        /\ lastPosition[d] # NoPosition
        /\ lastPosition[d] <= getTransitionPreCuePosition(State, d)

(* C10: keep_playing is set by play() only, cleared by stop() and by queue *)
(* exhaustion only, and is never true while the queue is empty and no deck *)
(* holds or is loading a track.                                            *)
C10_KeepPlayingWhilePlayable ==
    /\ [](~(keepPlaying /\ queue = <<>> /\ NothingLoadedOrLoading))
    /\ [][/\ (~keepPlaying /\ keepPlaying') => calls'["play"] = calls["play"] + 1
          /\ (keepPlaying /\ ~keepPlaying') =>
                 \/ calls'["stop"] = calls["stop"] + 1
                 \/ queue' = <<>> /\ \A d \in Decks : ~playing'[d]
          /\ calls'["stop"] = calls["stop"] + 1 => ~keepPlaying']_vars

-----------------------------------------------------------------------------
(* Two readable tracks, play() once, nothing else from the control thread *)

ReadableTracks == {t \in TrackIds : Tracks[t].readable}

InitTwoTracks == InitWith([1..2 -> ReadableTracks])

PlayOnce == calls["play"] = 0 /\ Play

NextTwoTracks ==
    \/ PlayOnce
    \/ AudioCallback
    \/ LoaderTimeSlice
    \/ ScannerTimeSlice

SpecTwoTracks == InitTwoTracks /\ [][NextTwoTracks]_vars

-----------------------------------------------------------------------------
(* A queue long enough for a deck to be used a second time: MaxQueue + 1   *)
(* readable tracks, play() once, then stop() and fade-outs at any time     *)

InitLongQueue == InitWith([1..(MaxQueue + 1) -> ReadableTracks])

NextLongQueue ==
    \/ PlayOnce
    \/ Stop
    \/ FadeOut
    \/ AudioCallback
    \/ LoaderTimeSlice
    \/ ScannerTimeSlice

SpecLongQueue == InitLongQueue /\ [][NextLongQueue]_vars

-----------------------------------------------------------------------------
LogUpTo(e) == SubSeq(log, 1, FirstIndex(e))

CountIn(q, events) == Cardinality({i \in DOMAIN q : q[i] \in events})

FirstTransitionEvents ==
    LET q == LogUpTo(<<"unloaded", deck1>>)
        at(e) == CHOOSE i \in DOMAIN q : q[i] = e
    IN  /\ CountIn(q, {<<"preCueNext", d>> : d \in Decks}) = 1
        /\ CountIn(q, {<<"started", deck2>>}) = 1
        /\ CountIn(q, {<<"finished", deck1>>}) = 1
        /\ at(<<"started", deck2>>) < at(<<"finished", deck1>>)

(* C9: when the first track has unloaded, the listener has received one    *)
(* pre_cue_next, one started of the second deck and one finished of the    *)
(* first, the started before the finished.                                 *)
C9_OneOfEach ==
    LogCount(<<"unloaded", deck1>>) > 0 => FirstTransitionEvents

-----------------------------------------------------------------------------
(* loadNextTrack as a function of the state it is called in *)

(* the states loadNextTrack is called in: by play() and by deckUnloaded    *)
(* with no current deck while no deck plays, by deckPosition with the      *)
(* playing main deck before the cue                                        *)
LoadNextCalledWith(currentDeck) ==
    IF currentDeck = NoDeck
    THEN ~isDeckPlaying(State)
    ELSE playing[currentDeck] /\ main[currentDeck] /\ transitionState < Cued

(* number of tracks at the front of q that deck refuses *)
RECURSIVE RejectedPrefix(_, _, _)
RejectedPrefix(s, deck, q) ==
    IF q # <<>> /\ ~loadTrack(s, deck, Head(q), FALSE).ok
    THEN 1 + RejectedPrefix(s, deck, Tail(q))
    ELSE 0

(* what a call that returned r has done, k tracks having been skipped *)
LoadNextOutcome(s, deck, play, r, k) ==
    /\ r.s.log = s.log
    /\ r.s.reader = s.reader
    /\ r.s.lastPosition = s.lastPosition
    /\ \A d \in Decks \ {deck} :
           r.s.loaderFile[d] = s.loaderFile[d] /\ r.s.isTrackLoading[d] = s.isTrackLoading[d]
    /\ IF k < Len(s.queue)
       THEN /\ r.ok
            /\ r.s.queue = SubSeq(s.queue, k + 2, Len(s.queue))
            /\ r.s.loaderFile[deck] = s.queue[k + 1]
            /\ r.s.isTrackLoading[deck]
            /\ r.s.playAfterLoading[deck] = play
       ELSE /\ ~r.ok
            /\ r.s.queue = <<>>
            /\ r.s.loaderFile[deck] = NoTrack
            /\ ~r.s.isTrackLoading[deck]

LoadNextContract(s, currentDeck, play) ==
    LoadNextOutcome(s, getAnotherDeck(s, currentDeck), play,
                    loadNextTrack(s, currentDeck, play),
                    RejectedPrefix(cancelLoading(s, getAnotherDeck(s, currentDeck)),
                                   getAnotherDeck(s, currentDeck), s.queue))

(* C11: load_next targets the other deck (the free one when there is no    *)
(* current deck), drops a load pending there, then takes tracks from the   *)
(* front of the queue, skipping each one the deck refuses, until the deck  *)
(* accepts one (true) or the queue is empty (false); nothing is loaded and *)
(* no event is delivered for a skipped track, and no deck ever holds one.  *)
C11_LoadNextSkipsRejected ==
    /\ \A currentDeck \in Decks \cup {NoDeck} : \A play \in BOOLEAN :
           (LoadNextCalledWith(currentDeck) /\ getAnotherDeck(State, currentDeck) # NoDeck)
           => LoadNextContract(State, currentDeck, play)
    /\ \A d \in Decks :
           /\ reader[d] # NoTrack => Tracks[reader[d]].readable
           /\ loaderFile[d] # NoTrack => Tracks[loaderFile[d]].readable

(* play() was called twice before the loader ran and nothing else was     *)
(* called: the load pending on the first deck was dropped and the next     *)
(* track of the queue is pending there instead                             *)
C11_ReloadedAfterForcedUnload ==
    /\ calls["play"] = 2
    /\ log = <<>>
    /\ queue = <<>>
    /\ isTrackLoading[deck1]
    /\ loaderFile[deck1] = 1
    /\ playAfterLoading[deck1]

-----------------------------------------------------------------------------
(* Forced fades: play() once, and one more call than MaxCalls so that      *)
(* fade_out() can be asked for twice after it                              *)

MayCallAgain ==
    calls["play"] + calls["stop"] + calls["fadeOut"] + calls["seek"] + calls["togglePause"]
        < MaxCalls + 1

FadeOutAgain ==
    /\ MayCallAgain
    /\ Becomes(fadeOutMainDeck(State))
    /\ Called("fadeOut")

InitForcedFades == InitWith([1..1 -> ReadableTracks] \cup [1..2 -> ReadableTracks])

NextForcedFades ==
    \/ PlayOnce
    \/ FadeOutAgain
    \/ AudioCallback
    \/ LoaderTimeSlice
    \/ ScannerTimeSlice

SpecForcedFades == InitForcedFades /\ [][NextForcedFades]_vars

(* decks that were asked to fade out and still hold their track *)
PendingForcedFades == {d \in Decks : fadeAt[d] # NoFade}

(* decks that give up their track in this step *)
UnloadedInStep == {d \in Decks : reader[d] # NoTrack /\ reader'[d] = NoTrack}

(* C12: force_fade_counter is never negative; a fade_out() that finds a    *)
(* main deck adds one (less the one taken back when the same call unloads  *)
(* the outgoing deck of a running transition); it goes down by one at a    *)
(* time and only when a deck unloads; and when no deck is left with a      *)
(* requested fade the counter is back at its initial value, zero.          *)
C12_ForceFadeCounterBalanced ==
    /\ [](forceFadingOut >= 0)
    /\ [](PendingForcedFades = {} => forceFadingOut = 0)
    /\ [][/\ (calls'["fadeOut"] = calls["fadeOut"] + 1 /\ getMainDeck(State) # NoDeck)
              => forceFadingOut' = forceFadingOut + 1 - Cardinality(UnloadedInStep)
          /\ forceFadingOut' < forceFadingOut
              => forceFadingOut' = forceFadingOut - 1 /\ UnloadedInStep # {}]_vars

-----------------------------------------------------------------------------
(* the position the incoming deck d was started at in an audio block that  *)
(* entered transit: the mixer pulls deck1 before deck2, so deck2 has       *)
(* already played one block of it when the callback returns                *)
IncomingStartPosition(d) ==
    IF d = deck2 THEN nextReadPosition'[d] - 1 ELSE nextReadPosition'[d]

EntersForcedTransit(d) ==
    /\ transitionState = Cued /\ transitionState' = Transit
    /\ transitingDeck \in Decks \ {d}
    /\ forceFadingOut > 0
    /\ reader[d] # NoTrack
    /\ getLeadingDuration(State, d) >= maxLeadingDuration

(* C13: when transit is entered with a forced fade pending and the         *)
(* incoming deck has a long leading, the incoming deck starts exactly      *)
(* max_leading_duration before its first audible position.                 *)
C13_ForcedFadeSeeksIntoLeading ==
    [][\A d \in Decks :
          EntersForcedTransit(d)
          => /\ playing'[d]
             /\ IncomingStartPosition(d) = firstAudible[d] - maxLeadingDuration
             /\ IncomingStartPosition(d) <= firstAudible[d]]_vars

-----------------------------------------------------------------------------
(* Transitions without a fade-out ramp *)

transitionDuration(s, d) == getTransitionEndPosition(s, d) - getTransitionStartPosition(s, d)

(* the main deck m delivers a position event in this audio block: the      *)
(* mixer pulls its inputs and m is playing; the position is the read       *)
(* position after the pull                                                 *)
PositionEventOf(m) ==
    /\ AudioCallback
    /\ ~stalled \/ ~paused
    /\ main[m] /\ playing[m]

PositionAfterPull(m) == nextReadPosition[m] + 1

(* C14: while transition_end - transition_start <= 0 for the main deck the *)
(* controller leaves its volume alone, and a position event of that deck   *)
(* still advances the transition: past the cue point a track is fetched    *)
(* from the queue and the state becomes cued, a loaded next deck is        *)
(* started past transition_start - leading, and the deck itself is stopped *)
(* (finished and unloaded) once its position exceeds transition_end in a   *)
(* transition that has been cued, or is cued by the same event.            *)
C14_NoRampStillAdvances ==
    [][\A m \in Decks :
          (main[m] /\ reader[m] # NoTrack /\ transitionDuration(State, m) <= 0)
          => /\ gain'[m] = gain[m]
             /\ (/\ PositionEventOf(m)
                 /\ transitionState < Cued
                 /\ PositionAfterPull(m) > getTransitionCuePosition(State, m)
                 /\ PositionAfterPull(m) <= getTransitionEndPosition(State, m)
                 /\ queue # <<>> /\ Tracks[Head(queue)].readable)
                => /\ queue' = Tail(queue)
                   /\ transitionState' >= Cued
                   /\ transitingDeck' = m
             /\ (/\ PositionEventOf(m)
                 /\ transitionState = Cued /\ transitingDeck = m
                 /\ reader[getAnotherDeck(State, m)] # NoTrack
                 /\ ~playing[getAnotherDeck(State, m)]
                 /\ PositionAfterPull(m) > getTransitionStartPosition(State, m)
                                            - getLeadingDuration(State, getAnotherDeck(State, m)))
                => LogCount(<<"started", getAnotherDeck(State, m)>>)'
                       = LogCount(<<"started", getAnotherDeck(State, m)>>) + 1
             /\ (/\ PositionEventOf(m)
                 /\ \/ transitionState \in {Cued, Transit} /\ transitingDeck = m
                    \/ transitionState < Cued /\ forceFadingOut > 0
                    \/ transitionState < Cued /\ queue # <<>> /\ Tracks[Head(queue)].readable
                 /\ PositionAfterPull(m) > getTransitionEndPosition(State, m))
                => /\ ~playing'[m] /\ reader'[m] = NoTrack
                   /\ LogCount(<<"finished", m>>)' = LogCount(<<"finished", m>>) + 1]_vars

(* a transition with max_transition_time = 0 has run to its end: the       *)
(* second deck was started, the first was finished and unloaded, and no    *)
(* volume was ever touched                                                 *)
C14_CutWithoutFade ==
    /\ maxTransitionTime = 0
    /\ calls["fadeOut"] = 0 /\ calls["stop"] = 0
    /\ LogCount(<<"preCueNext", deck1>>) = 1
    /\ LogCount(<<"started", deck2>>) = 1
    /\ LogCount(<<"finished", deck1>>) = 1
    /\ FirstIndex(<<"started", deck2>>) < FirstIndex(<<"finished", deck1>>)
    /\ playing[deck2]
    /\ gain = [d \in Decks |-> VolScale]

-----------------------------------------------------------------------------
(* Order of finished and unloaded *)

(* the event at index j of the log was delivered while deck d held the     *)
(* track of its latest loaded event, not after that track was unloaded     *)
WhileLoaded(d, j) ==
    \E i \in 1..(j - 1) :
        /\ log[i] = <<"loaded", d>>
        /\ \A k \in (i + 1)..(j - 1) : log[k] # <<"unloaded", d>>

FinishedThenUnloaded(d) ==
    /\ LogCount(<<"finished", d>>)' = LogCount(<<"finished", d>>) + 1
    /\ LogCount(<<"unloaded", d>>)' = LogCount(<<"unloaded", d>>) + 1
    /\ LastIndex(<<"finished", d>>)' < LastIndex(<<"unloaded", d>>)'
    /\ LastIndex(<<"finished", d>>)' > Len(log)

(* C15: a deck never reports finished after the unloaded of the same       *)
(* track; and when a playing deck stops playing in an audio block, the     *)
(* only step without a call of the control thread that stops a deck (end of *)
(* content, or stopped by the controller past the end of a fade-out) or is *)
(* caught by stop() inside a block, that step delivers finished and then   *)
(* unloaded; a stop() that gets in between two blocks delivers unloaded    *)
(* alone.                                                                  *)
C15_FinishedBeforeUnloaded ==
    /\ [](\A d \in Decks : \A j \in DOMAIN log :
              log[j] = <<"finished", d>> => WhileLoaded(d, j))
    /\ [][\A d \in Decks :
              /\ (playing[d] /\ ~playing'[d] /\ calls' = calls) => FinishedThenUnloaded(d)
              /\ (playing[d] /\ ~playing'[d] /\ calls' # calls)
                 => \/ FinishedThenUnloaded(d)
                    \/ /\ LogCount(<<"finished", d>>)' = LogCount(<<"finished", d>>)
                       /\ LogCount(<<"unloaded", d>>)' = LogCount(<<"unloaded", d>>) + 1]_vars

(* the first deck was asked to fade out, was stopped by the controller and *)
(* has reported finished and then unloaded while the second deck plays on  *)
C15_FadedOutAndUnloaded ==
    /\ calls["fadeOut"] = 1 /\ calls["stop"] = 0
    /\ maxTransitionTime > 0
    /\ LogCount(<<"finished", deck1>>) = 1
    /\ LogCount(<<"unloaded", deck1>>) = 1
    /\ FirstIndex(<<"finished", deck1>>) < FirstIndex(<<"unloaded", deck1>>)
    /\ playing[deck2] /\ doScan[deck2]

-----------------------------------------------------------------------------
(* TrackBuffer::stop on the control thread, one poll at a time             *)

PollLimit == 500
PollIntervalMs == 2

(* mutant: the countdown is tested before it is decremented, n-- >= 0 *)
pollStopped_PostDecrement(c, isStopped) ==
    IF c.n >= 0 /\ ~isStopped
    THEN [c EXCEPT !.n = @ - 1, !.slept = @ + 1]
    ELSE [c EXCEPT !.n = @ - 1, !.pc = "returned"]

(* while (--n >= 0 && !stopped) Thread::sleep(2): one evaluation of the    *)
(* condition, and the sleep if it holds                                    *)
pollStopped(c, isStopped) ==
    IF c.n - 1 >= 0 /\ ~isStopped
    THEN [c EXCEPT !.n = @ - 1, !.slept = @ + 1]
    ELSE [c EXCEPT !.n = @ - 1, !.pc = "returned"]

(* stop(): if (playing) { playing = false; int n = 500; ... } *)
enterStop(isPlaying_, d) ==
    IF isPlaying_
    THEN [deck |-> d, n |-> PollLimit, slept |-> 0, pc |-> "polling"]
    ELSE [deck |-> d, n |-> 0, slept |-> 0, pc |-> "returned"]

StopEnter ==
    /\ stopCall.pc = "none"
    /\ \E d \in Decks :
           /\ reader[d] # NoTrack
           /\ stopCall' = enterStop(playing[d], d)
           /\ Becomes([State EXCEPT !.playing[d] = FALSE])
    /\ UNCHANGED <<calls, lastBlock, scanning, locking, crashed, scanOpen, resampling, runtime>>

StopPoll ==
    /\ stopCall.pc = "polling"
    /\ stopCall' = pollStopped(stopCall, stopped[stopCall.deck])
    /\ Becomes(State)
    /\ UNCHANGED <<calls, lastBlock, scanning, locking, crashed, scanOpen, resampling, runtime>>

InitStopPoll == InitWith([1..1 -> ReadableTracks])

NextStopPoll ==
    \/ PlayOnce
    \/ StopEnter
    \/ StopPoll
    \/ AudioCallback
    \/ LoaderTimeSlice
    \/ ScannerTimeSlice

(* the control thread keeps running its loop; nothing is assumed of the    *)
(* audio thread, which may never run another block                         *)
SpecStopPoll == InitStopPoll /\ [][NextStopPoll]_vars /\ WF_vars(StopPoll)

(* C16: a deck's stop() sleeps at most 500 times, 2 ms each, returns       *)
(* early only when the audio thread has acknowledged, and always returns,  *)
(* whether or not the audio thread runs another block.                     *)
C16_StopAlwaysReturns ==
    /\ [](/\ stopCall.slept <= PollLimit
          /\ stopCall.slept * PollIntervalMs <= 1000
          /\ (stopCall.pc = "returned" /\ stopCall.slept < PollLimit /\ stopCall.n >= 0)
             => stopped[stopCall.deck] \/ stopCall.slept = 0)
    /\ (stopCall.pc = "polling") ~> (stopCall.pc = "returned")

(* stop() has returned after its last poll without the audio thread ever   *)
(* acknowledging                                                           *)
C16_ReturnedUnacknowledged ==
    /\ stopCall.pc = "returned"
    /\ stopCall.slept = PollLimit
    /\ ~stopped[stopCall.deck]
    /\ ~playing[stopCall.deck]

-----------------------------------------------------------------------------
(* unload() applied twice *)

UnloadedCount(s, d) == CountIn(s.log, {<<"unloaded", d>>})

(* s1 is the state after unload() of deck d in state s, s2 the state after *)
(* a second unload() of d                                                  *)
UnloadOnce(s, d, s1) ==
    /\ s1.reader[d] = NoTrack
    /\ ~s1.playing[d]
    /\ s.reader[d] # NoTrack
           => /\ s1.firstAudible[d] = 0 /\ s1.lastAudible[d] = 0
              /\ s1.totalSamplesToPlay[d] = 0 /\ s1.fadeAt[d] = NoFade
    /\ UnloadedCount(s1, d) = UnloadedCount(s, d) + (IF s.reader[d] # NoTrack THEN 1 ELSE 0)

UnloadAgain(d, s1, s2) ==
    /\ s2.log = s1.log
    /\ s2 = [s1 EXCEPT !.loaderFile[d] = NoTrack, !.isTrackLoading[d] = FALSE]
    /\ ~s1.isTrackLoading[d] => s2 = s1

UnloadTwice(s, d, s1) == UnloadOnce(s, d, s1) /\ UnloadAgain(d, s1, unloadTrack(s1, d))

-----------------------------------------------------------------------------
(* The life cycle of a deck *)

(* the state of deck d as the design document names it; the pause is the   *)
(* mixer's, a playing deck is paused while the mixer is                    *)
DeckState(d) ==
    IF isTrackLoading[d] THEN "loading"
    ELSE IF reader[d] = NoTrack THEN "empty"
    ELSE IF ~playing[d] THEN "loaded"
    ELSE IF paused THEN "paused"
    ELSE "playing"

CycleEdges ==
    { <<"empty", "loading">>, <<"loading", "loaded">>, <<"loaded", "playing">>,
      <<"playing", "empty">>, <<"playing", "paused">>, <<"paused", "playing">> }

(* two edges of the cycle taken inside one handler: the loader installs   *)
(* the source and starts the deck (loadTrackInternal), and the unloaded    *)
(* handler loads the next track into the deck that has just been released  *)
ComposedEdges ==
    { <<"loading", "playing">>, <<"playing", "loading">> }

(* the edges outside the cycle: unloadTrack releases a deck in whatever    *)
(* state it is (a paused deck that ends in the block that stalls the mixer *)
(* may be reloaded by its unloaded handler in the same block), and start() *)
(* on a deck while the mixer is paused                                     *)
UnloadEdges ==
    { <<"loading", "empty">>, <<"loaded", "empty">>, <<"paused", "empty">>,
      <<"paused", "loading">> }

StartWhilePausedEdges ==
    { <<"loading", "paused">>, <<"loaded", "paused">> }

DeckStep(d, edges) ==
    DeckState(d)' # DeckState(d) => <<DeckState(d), DeckState(d)'>> \in edges

-----------------------------------------------------------------------------
(* The anchors of a loaded track *)

NotFound == -1

(* AudioFormatReader::searchForLevel(start, n, ...) answers -1 or a        *)
(* position of the searched range that lies inside the file                *)
searchForLevel(startSample, numSamplesToSearch, length) ==
    {NotFound} \cup {p \in startSample..(startSample + numSamplesToSearch - 1) : p < length}

lengthInSamples(track) == Tracks[track].total

(* loadTrackInternal: searchForLevel(0, mid, ...) *)
FirstSoundSearch(track) ==
    searchForLevel(0, lengthInSamples(track) \div 2, lengthInSamples(track))

(* scanTrackInternal: searchForLevel(jmax(first, mid, length - 30 s), length, ...) *)
SilenceSearch(d) ==
    searchForLevel(Max(firstAudible[d], lengthInSamples(file[d]) \div 2),
                   lengthInSamples(file[d]), lengthInSamples(file[d]))

(* scanTrackInternal: searchForLevel(silencePosition, length, ...) *)
EndingSearch(d, silencePosition) ==
    searchForLevel(silencePosition, lengthInSamples(file[d]), lengthInSamples(file[d]))

LoaderAnySearch ==
    /\ \E d \in Decks :
          /\ loaderFile[d] # NoTrack
          /\ \E found \in FirstSoundSearch(loaderFile[d]) :
                Becomes(loadTrackInternalWith(State, d, found))
    /\ UNCHANGED <<calls, stopCall, lastBlock, scanning, locking, crashed, scanOpen, resampling, runtime>>

ScannerAnySearch ==
    /\ \E d \in Decks :
          /\ doScan[d]
          /\ file[d] # NoTrack
          /\ \E silencePosition \in SilenceSearch(d) :
                \E endPosition \in EndingSearch(d, silencePosition) :
                    Becomes(scanTrackInternalWith(State, d, silencePosition, endPosition))
    /\ UNCHANGED <<calls, stopCall, lastBlock, scanning, locking, crashed, scanOpen, resampling, runtime>>

InitAnySearch == InitWith([1..1 -> ReadableTracks])

NextAnySearch ==
    \/ PlayOnce
    \/ Stop
    \/ Seek
    \/ AudioCallback
    \/ LoaderAnySearch
    \/ ScannerAnySearch

SpecAnySearch == InitAnySearch /\ [][NextAnySearch]_vars

AnchorsOrdered(d) ==
    /\ 0 <= firstAudible[d]
    /\ firstAudible[d] <= lastAudible[d]
    /\ lastAudible[d] <= totalSamplesToPlay[d]
    /\ totalSamplesToPlay[d] <= lengthInSamples(reader[d])

(* C19: for every loaded track, before, during and after the scan,         *)
(* first_audible <= last_audible <= end <= total frames, whatever the      *)
(* level searches answer, "not found" included.                            *)
C19_AnchorsOrdered ==
    \A d \in Decks : reader[d] # NoTrack => AnchorsOrdered(d)

(* a scan has found the silence and no ending after it, on a track whose   *)
(* first sound was not found                                               *)
C19_ScannedWithoutEnding ==
    \E d \in Decks :
        /\ reader[d] # NoTrack
        /\ ~doScan[d]
        /\ firstAudible[d] = 0
        /\ lastAudible[d] < totalSamplesToPlay[d]
        /\ totalSamplesToPlay[d] = lengthInSamples(reader[d])

-----------------------------------------------------------------------------
(* The mixer's pause *)

RampFrames == 256
BlockSizes == {128, 512}

(* Mixer::getNextAudioBlock, what it does with the block of numSamples     *)
(* frames: whether it pulls the decks and which gain ramp it applies, over *)
(* jmin(256, numSamples) frames.  A block it does not pull stays as the    *)
(* device callback handed it over, cleared (the device has no inputs).     *)
mixerBlock(wasStalled, isPaused, numSamples) ==
    IF ~wasStalled
    THEN [paused |-> isPaused, pulled |-> TRUE,
          ramp |-> IF isPaused THEN "down" ELSE "none",
          frames |-> IF isPaused THEN Min(RampFrames, numSamples) ELSE 0,
          numSamples |-> numSamples]
    ELSE IF ~isPaused
         THEN [paused |-> FALSE, pulled |-> TRUE, ramp |-> "up",
               frames |-> Min(RampFrames, numSamples), numSamples |-> numSamples]
         ELSE [paused |-> TRUE, pulled |-> FALSE, ramp |-> "none",
               frames |-> 0, numSamples |-> numSamples]

AudioBlock ==
    /\ Becomes(Mixer_getNextAudioBlock(State))
    /\ \E numSamples \in BlockSizes : lastBlock' = mixerBlock(stalled, paused, numSamples)
    /\ UNCHANGED <<calls, stopCall, scanning, locking, crashed, scanOpen, resampling, runtime>>

TogglePauseAgain ==
    /\ calls["togglePause"] < MaxCalls + 1
    /\ Becomes(togglePause(State))
    /\ Called("togglePause")

FadeOutOnce ==
    /\ calls["fadeOut"] = 0
    /\ Becomes(fadeOutMainDeck(State))
    /\ Called("fadeOut")

InitPause == InitWith([1..1 -> ReadableTracks])

NextPause ==
    \/ PlayOnce
    \/ TogglePauseAgain
    \/ FadeOutOnce
    \/ AudioBlock
    \/ LoaderTimeSlice
    \/ ScannerTimeSlice

SpecPause == InitPause /\ [][NextPause]_vars

(* the decks have been pulled: a deck that was playing has moved on *)
DecksPulled ==
    (\E d \in Decks : playing[d] /\ ~stopped[d])
        => nextReadPosition' # nextReadPosition \/ log' # log

DecksUntouched ==
    /\ nextReadPosition' = nextReadPosition
    /\ playing' = playing
    /\ log' = log

RampedOver(block, ramp) ==
    /\ block.pulled
    /\ block.ramp = ramp
    /\ block.frames = Min(RampFrames, block.numSamples)

(* C20: the first block processed after paused became true is pulled from  *)
(* the decks, ramped to zero over min(256, N) frames and sets stalled;     *)
(* every later block processed while still paused is silent; the first     *)
(* block processed after paused became false is pulled, ramped from zero   *)
(* to full over min(256, N) frames and clears stalled.  Whether paused has *)
(* changed is judged against the block processed before.                   *)
C20_PauseProtocol ==
    [][AudioBlock =>
        /\ (paused /\ ~lastBlock.paused)
              => RampedOver(lastBlock', "down") /\ DecksPulled /\ stalled'
        /\ (paused /\ lastBlock.paused)
              => ~lastBlock'.pulled /\ DecksUntouched /\ stalled'
        /\ (~paused /\ lastBlock.paused)
              => RampedOver(lastBlock', "up") /\ DecksPulled /\ ~stalled'
        /\ (~paused /\ ~lastBlock.paused)
              => lastBlock'.pulled /\ lastBlock'.ramp = "none" /\ DecksPulled /\ ~stalled']_vars

(* a playing deck has been paused, silenced for a block and resumed with a *)
(* block shorter than the ramp                                             *)
C20_ResumedAfterSilence ==
    /\ calls["togglePause"] = 2
    /\ lastBlock.ramp = "up"
    /\ lastBlock.frames = 128
    /\ ~stalled
    /\ \E d \in Decks : playing[d] /\ nextReadPosition[d] >= 2

-----------------------------------------------------------------------------
(* Positions across a pause *)

(* deck d is pulled by the next block that mixes the decks *)
IsPulled(d) == reader[d] # NoTrack /\ ~stopped[d]

(* deck d has moved on by one block, or has ended in it *)
AdvancedOneBlock(d) ==
    \/ nextReadPosition'[d] = nextReadPosition[d] + 1
    \/ reader'[d] # reader[d]

(* C21: while the mixer is stalled and paused a block pulls no deck and    *)
(* every read position stays as it is, and so it does when togglePause is  *)
(* called; the block that resumes moves every pulled deck on by exactly    *)
(* one block from the position it held through the pause.                 *)
C21_PauseHoldsPosition ==
    [][/\ (stalled /\ paused /\ AudioBlock)
            => nextReadPosition' = nextReadPosition /\ reader' = reader
       /\ calls'["togglePause"] # calls["togglePause"]
            => nextReadPosition' = nextReadPosition /\ reader' = reader
       /\ (stalled /\ ~paused /\ AudioBlock)
            => \A d \in Decks : IsPulled(d) => AdvancedOneBlock(d)]_vars

(* a deck paused at position 2 through a silent block has resumed and is   *)
(* at position 3                                                           *)
C21_ResumedWhereStalled ==
    /\ calls["togglePause"] = 2
    /\ lastBlock.ramp = "up"
    /\ lastBlock.numSamples = 512
    /\ playing[deck1]
    /\ nextReadPosition[deck1] = 3
    /\ lastPosition[deck1] = 3

-----------------------------------------------------------------------------
(* Operations on an empty deck *)

(* TrackBuffer::getTotalLength / getNextReadPosition: 0 without a source *)
getDuration(s, d) == IF s.reader[d] # NoTrack THEN lengthInSamples(s.reader[d]) ELSE 0

getPositionInSeconds(s, d) == IF s.reader[d] # NoTrack THEN s.nextReadPosition[d] ELSE 0

Medley_getDuration(s) ==
    IF getMainDeck(s) # NoDeck THEN getDuration(s, getMainDeck(s)) ELSE 0

Medley_getPositionInSeconds(s) ==
    IF getMainDeck(s) # NoDeck THEN getPositionInSeconds(s, getMainDeck(s)) ELSE 0

(* set of the states the four deck operations leave deck d in *)
DeckOperations(s, d) ==
    {start(s, d), stop(s, d), unloadTrack(s, d)} \cup {setPosition(s, d, t) : t \in SeekTargets}

NoTrackOperations(s, d) ==
    {start(s, d), stop(s, d)} \cup {setPosition(s, d, t) : t \in SeekTargets}

(* C22: start(), stop(), seek and unload() on a deck that holds no track   *)
(* and is not loading one change nothing and deliver no event (start, stop *)
(* and seek also while the deck is loading); the engine's seek changes     *)
(* nothing while there is no main deck, and duration and position then     *)
(* read 0.  A stop() or seek of the control thread made in such a state    *)
(* leaves the decks as they were.                                          *)
C22_EmptyDeckNoOps ==
    /\ [](\A d \in Decks :
             /\ (reader[d] = NoTrack /\ ~isTrackLoading[d]) => DeckOperations(State, d) = {State}
             /\ reader[d] = NoTrack => NoTrackOperations(State, d) = {State})
    /\ [](getMainDeck(State) = NoDeck
             => /\ \A t \in SeekTargets : setPositionInSeconds(State, t) = State
                /\ Medley_getDuration(State) = 0
                /\ Medley_getPositionInSeconds(State) = 0)
    /\ [][(calls'["seek"] # calls["seek"] /\ deckQueue = << >>)
             => State' = State]_vars
    /\ [][(/\ calls'["stop"] # calls["stop"]
            /\ \A d \in Decks : reader[d] = NoTrack /\ ~isTrackLoading[d])
             => State' = [State EXCEPT !.keepPlaying = FALSE]]_vars

(* stop() and a seek have been called on the engine as constructed, both   *)
(* decks empty, and nothing has been delivered or fetched                  *)
C22_CalledOnEmptyDecks ==
    /\ calls["stop"] = 1
    /\ calls["seek"] = 1
    /\ log = << >>
    /\ queue # << >>
    /\ \A d \in Decks : reader[d] = NoTrack /\ ~isTrackLoading[d]

-----------------------------------------------------------------------------
(* Leaving transit *)

NextTransit ==
    \/ PlayOnce
    \/ Stop
    \/ FadeOut
    \/ Seek
    \/ AudioCallback
    \/ LoaderTimeSlice
    \/ ScannerTimeSlice

(* the audio callback is a function of the state, so it is enabled exactly *)
(* when a block would change something                                     *)
AudioPending == Mixer_getNextAudioBlock(State) # State

(* the device calls the audio callback again and again: weak fairness of   *)
(* AudioCallback, with its enabling condition written out as AudioPending  *)
AudioFairness == []<>(~AudioPending) \/ []<><<AudioCallback>>_vars

(* the mixer is never paused here, so the decks keep reporting their       *)
(* positions; nothing is assumed of the loader and the scanner threads     *)
SpecTransit == InitTwoTracks /\ [][NextTransit]_vars /\ AudioFairness

(* the mixer pulls deck1 and then deck2 in one block: the state in which   *)
(* deck d is pulled and the state its callbacks leave behind               *)
BeforePull(d) == IF d = deck1 THEN State ELSE getNextAudioBlock(State, deck1)

AfterPull(d) == getNextAudioBlock(BeforePull(d), d)

(* the pull of deck d reports a position past the end of its transition,   *)
(* with the transition complete                                            *)
PastTransitionEnd(b, d) ==
    /\ b.reader[d] # NoTrack /\ ~b.stopped[d] /\ b.playing[d] /\ b.main[d]
    /\ b.nextReadPosition[d] + 1 > getTransitionEndPosition(b, d)
    /\ transitionProgress(b.nextReadPosition[d] + 1,
                          getTransitionStartPosition(b, d),
                          getTransitionEndPosition(b, d) - getTransitionStartPosition(b, d)) >= VolScale

(* the callbacks of the outgoing deck d end the transition *)
TransitEnded(b, a, d) ==
    /\ b.transitionState = Transit /\ b.transitingDeck = d
    /\ ~a.playing[d] /\ a.reader[d] = NoTrack
    /\ a.transitionState = Idle /\ a.transitingDeck = NoDeck
    /\ a.forceFadingOut = IF b.forceFadingOut > 0 THEN b.forceFadingOut - 1 ELSE 0

(* C23: once in transit, with the position events of the outgoing deck     *)
(* arriving, the transit always ends; a position past transition_end with  *)
(* the transition complete stops the outgoing deck, and when its callbacks *)
(* return the engine is idle with no transiting deck and the forced-fade   *)
(* counter one lower if it was positive; no audio block leaves transit in  *)
(* another way.                                                            *)
C23_TransitEnds ==
    /\ (transitionState = Transit) ~> (transitionState # Transit)
    /\ [][/\ (transitionState = Transit /\ calls' = calls /\ AudioCallback
                /\ PastTransitionEnd(BeforePull(transitingDeck), transitingDeck))
             => TransitEnded(BeforePull(transitingDeck), AfterPull(transitingDeck), transitingDeck)
          /\ (transitionState = Transit /\ calls' = calls
                /\ (transitionState' # Transit \/ transitingDeck' # transitingDeck))
             => TransitEnded(BeforePull(transitingDeck), AfterPull(transitingDeck), transitingDeck)]_vars

(* a forced fade has run its transit: the outgoing deck is unloaded, the   *)
(* incoming deck plays, the engine is idle and the counter is back at zero *)
C23_ForcedTransitDone ==
    /\ calls["fadeOut"] = 1 /\ calls["stop"] = 0 /\ calls["seek"] = 0
    /\ transitionState = Idle /\ transitingDeck = NoDeck /\ forceFadingOut = 0
    /\ reader[deck1] = NoTrack /\ playing[deck2]
    /\ \E i \in 1..Len(log) : log[i] = <<"started", deck2>>

-----------------------------------------------------------------------------
(* The transiting deck *)

(* C24: transiting_deck is set with cued and cleared with idle: while the  *)
(* state is cued or transit it is the outgoing deck, the main deck whose   *)
(* position event entered cued, and it does not change until that deck is  *)
(* unloaded; while the state is idle or cueing there is none, also after a *)
(* fade_out() during a transit.                                            *)
C24_TransitingDeckWithState ==
    /\ [](/\ transitionState \in {Idle, Cueing} => transitingDeck = NoDeck
          /\ transitionState \in {Cued, Transit} =>
                /\ transitingDeck # NoDeck
                /\ deckQueue # <<>> /\ Head(deckQueue) = transitingDeck
                /\ main[transitingDeck])
    /\ [][/\ (transitionState < Cued /\ transitionState' >= Cued) =>
                /\ calls' = calls
                /\ playing[transitingDeck']
                /\ nextReadPosition'[transitingDeck'] = nextReadPosition[transitingDeck'] + 1
                /\ lastPosition'[transitingDeck'] = nextReadPosition'[transitingDeck']
          /\ (transitionState >= Cued /\ transitionState' >= Cued) =>
                \/ transitingDeck' = transitingDeck
                \/ reader'[transitingDeck] = NoTrack]_vars

(* fade_out() was called during a transit: the outgoing deck is gone, the  *)
(* engine is idle with no transiting deck and the new main deck is fading  *)
C24_FadedOutOfTransit ==
    /\ calls["fadeOut"] = 1 /\ calls["play"] = 1
    /\ transitionState = Idle /\ transitingDeck = NoDeck
    /\ forceFadingOut = 0
    /\ deckQueue # <<>> /\ fadeAt[Head(deckQueue)] # NoFade
    /\ \E i \in 1..Len(log) : log[i][1] = "unloaded"

-----------------------------------------------------------------------------
(* The transiting deck unloads before its transition *)

(* the states Medley::stop goes through: keepPlaying cleared, each deck    *)
(* stopped, each deck unloaded                                             *)
stopStages(s, o1, o2) ==
    LET s1 == [s EXCEPT !.keepPlaying = FALSE]
        s2 == stopAndWait(s1, deck1, o1)
        s3 == stopAndWait(s2, deck2, o2)
        s4 == unloadTrack(s3, deck1)
    IN  <<s1, s2, s3, s4, unloadTrack(s4, deck2)>>

(* deck d is unloaded between b and a while it is the transiting deck and  *)
(* the state is cued                                                       *)
UnloadsWhileCued(b, a, d) ==
    /\ b.transitionState = Cued /\ b.transitingDeck = d
    /\ b.reader[d] # NoTrack /\ a.reader[d] = NoTrack

(* the unload leaves the engine idle, and the other deck playing exactly   *)
(* if it held a track; it is started between the finished and the unloaded *)
(* events of deck d                                                        *)
OtherDeckStarted(b, a, d, other) ==
    /\ a.transitionState = Idle /\ a.transitingDeck = NoDeck
    /\ a.playing[other] = isTrackLoaded(b, other)
    /\ \E finished \in {<<>>, << <<"finished", d>> >>} :
          a.log = b.log \o finished
                        \o (IF isTrackLoaded(b, other) /\ ~b.playing[other]
                            THEN << <<"started", other>> >> ELSE <<>>)
                        \o << <<"unloaded", d>> >>

CuedUnload(b, a, d) ==
    UnloadsWhileCued(b, a, d) => OtherDeckStarted(b, a, d, getAnotherDeck(b, d))

CuedUnloadInStop(stages) ==
    /\ CuedUnload(stages[1], stages[2], deck1)
    /\ CuedUnload(stages[2], stages[3], deck2)
    /\ CuedUnload(stages[3], stages[4], deck1)
    /\ CuedUnload(stages[4], stages[5], deck2)

(* the state of the audio block of deck d after its position event and its *)
(* end-of-stream test, before it reports finished and unloads              *)
BeforeUnload(b, d) ==
    IF b.reader[d] # NoTrack /\ ~b.stopped[d]
    THEN endOfStream(positionEvent([b EXCEPT !.nextReadPosition[d] = @ + 1], d), d)
    ELSE [b EXCEPT !.stopped[d] = TRUE]

(* C25: when the transiting deck unloads while the state is cued, at the   *)
(* end of its track in the audio block or unloaded by stop(), the engine   *)
(* is idle with no transiting deck when the unloaded callback returns, and *)
(* the other deck has been started if and only if it held a loaded track.  *)
C25_CuedDeckUnloads ==
    /\ \A d \in Decks : CuedUnload(BeforeUnload(BeforePull(d), d), AfterPull(d), d)
    /\ \A o1, o2 \in StopOutcomes : CuedUnloadInStop(stopStages(State, o1, o2))

(* stop() called here unloads the cued deck1 while deck2 holds its loaded  *)
(* track, and deck2 is started by the unloaded callback of deck1           *)
C25_StopStartsNextDeck ==
    /\ transitionState = Cued /\ transitingDeck = deck1
    /\ isTrackLoaded(State, deck2) /\ ~playing[deck2]
    /\ UnloadsWhileCued(stopStages(State, "acked", "acked")[3],
                        stopStages(State, "acked", "acked")[4], deck1)
    /\ stopStages(State, "acked", "acked")[4].playing[deck2]

-----------------------------------------------------------------------------
(* The recovery path *)

(* unloadTrackInternal up to its call of the unloaded callback *)
Released(s, d) == clearAnchors([s EXCEPT !.playing[d] = FALSE, !.reader[d] = NoTrack], d)

(* Medley::deckUnloaded up to its last block *)
BeforeRecovery(u, d) == removeFromDeckQueue(transitingDeckUnloaded(u, d), d)

(* the states in which the last block of deckUnloaded is entered from the  *)
(* present state: a deck ends in its audio block, the loader replaces the  *)
(* track a deck holds, fade_out() unloads the main deck during a transit   *)
AudioRecoveries ==
    {BeforeRecovery(Released(deckFinished(BeforeUnload(BeforePull(d), d), d), d), d) :
        d \in {e \in Decks : /\ BeforePull(e).playing[e]
                             /\ ~BeforeUnload(BeforePull(e), e).playing[e]
                             /\ BeforePull(e).reader[e] # NoTrack
                             /\ ~(stalled /\ paused)}}

LoaderRecoveries ==
    {BeforeRecovery(Released(State, d), d) :
        d \in {e \in Decks : loaderFile[e] # NoTrack /\ reader[e] # NoTrack}}

FadeOutRecoveries ==
    {BeforeRecovery(Released(releaseSource(cancelLoading([State EXCEPT !.forceFadingOut = @ + 1], d), d), d), d) :
        d \in {e \in Decks : /\ transitionState = Transit
                             /\ getMainDeck(State) = e
                             /\ reader[e] # NoTrack}}

Recoveries == AudioRecoveries \cup LoaderRecoveries \cup FadeOutRecoveries

(* a queue long enough to leave tracks behind when a deck unloads, with    *)
(* files no decoder opens among them                                       *)
InitRecovery == InitWith([1..(MaxQueue + 1) -> TrackIds])

NextRecovery ==
    \/ PlayOnce
    \/ Stop
    \/ FadeOut
    \/ AudioCallback
    \/ LoaderTimeSlice
    \/ ScannerTimeSlice

(* a loader time slice with a pending file always changes the state *)
LoaderPending == \E d \in Decks : loaderFile[d] # NoTrack

(* the loader thread keeps running: weak fairness of LoaderTimeSlice, with *)
(* its enabling condition written out as LoaderPending                     *)
LoaderFairness == []<>(~LoaderPending) \/ []<><<LoaderTimeSlice>>_vars

SpecRecovery == InitRecovery /\ [][NextRecovery]_vars /\ AudioFairness /\ LoaderFairness

(* what the claim expects of the last block of deckUnloaded entered in r   *)
(* and left in a                                                           *)
Recovers(r, a) ==
    (r.keepPlaying /\ ~isDeckPlaying(r)) =>
        IF Len(r.queue) > 0
        THEN /\ a.keepPlaying
             /\ a.queue = Tail(r.queue)
             /\ \E d \in Decks :
                   /\ ~isTrackLoaded(r, d)
                   /\ a.loaderFile[d] = Head(r.queue)
                   /\ a.isTrackLoading[d] /\ a.playAfterLoading[d]
        ELSE a = [r EXCEPT !.keepPlaying = FALSE]

(* C26: on every unloaded event with keep_playing set and no deck playing, *)
(* a non-empty queue has its next track fetched and loaded with autoplay   *)
(* on a free deck, and an empty queue leaves nothing loaded and            *)
(* keep_playing false.                                                     *)
C26_RecoveryLoadsNext == \A r \in Recoveries : Recovers(r, continuePlaying(r))

(* the part of C26 that holds: a load with autoplay pending while nothing  *)
(* plays leads to a playing deck, unless stop() is called first            *)
PendingLoadResumes ==
    (keepPlaying /\ ~isDeckPlaying(State)
        /\ \E d \in Decks : isTrackLoading[d] /\ playAfterLoading[d])
    ~> (isDeckPlaying(State) \/ ~keepPlaying)

-----------------------------------------------------------------------------
(* Where the fade-out is applied *)

(* the state in which deck d reports its position in this audio block, and *)
(* the state its position event leaves                                     *)
AtPosition(d) == [BeforePull(d) EXCEPT !.nextReadPosition[d] = @ + 1]

AfterPosition(d) == positionEvent(AtPosition(d), d)

(* deck d is the main deck and reports a position in this audio block *)
MainDeckReports(d) ==
    /\ ~(stalled /\ paused)
    /\ BeforePull(d).reader[d] # NoTrack /\ ~BeforePull(d).stopped[d]
    /\ BeforePull(d).playing[d] /\ BeforePull(d).main[d]

(* the value the fade-out gives the volume of deck d at the position of s *)
FadeOutVolume(s, d) ==
    pow(VolScale - transitionProgress(s.nextReadPosition[d],
                                      getTransitionStartPosition(s, d),
                                      getTransitionEndPosition(s, d) - getTransitionStartPosition(s, d)),
        fadingFactor(s))

InFadeOutRange(s, d) ==
    /\ s.nextReadPosition[d] >= getTransitionStartPosition(s, d)
    /\ getTransitionEndPosition(s, d) > getTransitionStartPosition(s, d)

(* C27 as stated: the fade-out is applied only while the state is transit; *)
(* in idle, cueing and cued a position event of the main deck leaves its   *)
(* volume unchanged.                                                       *)
C27_FadeOutOnlyInTransit ==
    \A d \in Decks :
        (MainDeckReports(d) /\ AfterPosition(d).transitionState # Transit)
            => AfterPosition(d).gain[d] = AtPosition(d).gain[d]

(* the controller returns before its fade block: past the cue point with   *)
(* no next track loaded and no fade forced, the state stays idle or cueing *)
ReturnsBeforeFade(s, a, d) ==
    /\ a.transitionState \in {Idle, Cueing}
    /\ s.nextReadPosition[d] > getTransitionCuePosition(s, d)

(* C27, amended: a position event of the main deck at or past              *)
(* transition_start, with a positive transition duration, sets its volume  *)
(* to (1 - progress)^fading_factor in cued as in transit, and in idle or   *)
(* cueing too unless the position is past the cue point; any other         *)
(* position event of the main deck leaves its volume unchanged.            *)
C27_FadeOutWhenCuedOrTransit ==
    \A d \in Decks :
        MainDeckReports(d) =>
            AfterPosition(d).gain[d] =
                IF /\ InFadeOutRange(AtPosition(d), d)
                   /\ ~ReturnsBeforeFade(AtPosition(d), AfterPosition(d), d)
                THEN FadeOutVolume(AtPosition(d), d)
                ELSE AtPosition(d).gain[d]

(* the main deck is faded down by its position event while the state is    *)
(* cued, no transit having begun                                           *)
C27_FadedWhileCued ==
    \E d \in Decks :
        /\ MainDeckReports(d)
        /\ AfterPosition(d).transitionState = Cued
        /\ InFadeOutRange(AtPosition(d), d)
        /\ AfterPosition(d).gain[d] < AtPosition(d).gain[d]

-----------------------------------------------------------------------------
(* End of content in the audio block *)

(* deck d is pulled in this audio block: it has a source and has not       *)
(* acknowledged a stop                                                     *)
IsPulledInBlock(d) ==
    /\ ~(stalled /\ paused)
    /\ BeforePull(d).reader[d] # NoTrack /\ ~BeforePull(d).stopped[d]

(* the read position after the pull has passed the end of content *)
PastEndOfContent(d) ==
    AtPosition(d).nextReadPosition[d] > AfterPosition(d).totalSamplesToPlay[d]

FinishedInBlock(d) ==
    CountIn(SubSeq(AfterPull(d).log, Len(BeforePull(d).log) + 1, Len(AfterPull(d).log)),
            {<<"finished", d>>})

(* end of content stops the deck and reports finished once; short of it    *)
(* the deck goes on unless the controller stopped it                       *)
StopsAtEndOfContent(d) ==
    /\ PastEndOfContent(d) =>
          /\ AfterPull(d).stopped[d] /\ ~AfterPull(d).playing[d]
          /\ FinishedInBlock(d) = IF BeforePull(d).playing[d] THEN 1 ELSE 0
    /\ (~PastEndOfContent(d) /\ AfterPosition(d).playing[d]) =>
          /\ AfterPull(d).playing[d] /\ ~AfterPull(d).stopped[d]
          /\ FinishedInBlock(d) = 0

(* C29: in the audio block end of content is detected exactly when the     *)
(* next read position exceeds end_frame + 1; the deck then becomes stopped *)
(* and reports finished exactly once, and the audio block does not unload  *)
(* the deck: the release of decoder and buffers is left to another thread. *)
C29_EndOfContentDefersUnload ==
    \A d \in Decks :
        IsPulledInBlock(d) =>
            /\ StopsAtEndOfContent(d)
            /\ PastEndOfContent(d) => AfterPull(d).reader[d] = BeforePull(d).reader[d]

-----------------------------------------------------------------------------
(* The scan stores its two anchors one after the other *)

(* TrackBuffer::scanTrackInternal reaches its second level search *)
scanFindsSilence(s, d) ==
    s.file[d] # NoTrack /\ Tracks[s.file[d]].last > s.firstAudible[d]

(* TrackBuffer::scanTrackInternal up to the store of                       *)
(* lastAudibleSoundPosition; a scan that finds no silence is over, and the *)
(* scheduler clears doScan                                                 *)
scanSilence(s, d) ==
    IF scanFindsSilence(s, d)
    THEN [s EXCEPT !.lastAudible[d] = Tracks[s.file[d]].last]
    ELSE [s EXCEPT !.doScan[d] = FALSE]

(* the rest of TrackBuffer::scanTrackInternal, on the reader it opened:    *)
(* the search for the ending, the store of totalSamplesToPlay, and the     *)
(* scheduler clearing doScan                                               *)
scanEnding(s, d, track) ==
    LET s1 == IF Tracks[track].endp > s.lastAudible[d]
              THEN [s EXCEPT !.totalSamplesToPlay[d] = Tracks[track].endp]
              ELSE s
    IN  [s1 EXCEPT !.doScan[d] = FALSE]

(* the loading thread is not inside a scan *)
NotScanning == \A d \in Decks : scanning[d] = NoTrack

(* the loading thread starts a scheduled scan and stores the first anchor *)
ScanSilence ==
    /\ NotScanning
    /\ \E d \in Decks :
           /\ doScan[d]
           /\ Becomes(scanSilence(State, d))
           /\ scanning' = [scanning EXCEPT
                              ![d] = IF scanFindsSilence(State, d) THEN file[d] ELSE NoTrack]
    /\ UNCHANGED <<calls, stopCall, lastBlock, locking, crashed, scanOpen, resampling, runtime>>

(* the loading thread finishes the scan it is in *)
ScanEnding ==
    /\ \E d \in Decks :
           /\ scanning[d] # NoTrack
           /\ Becomes(scanEnding(State, d, scanning[d]))
           /\ scanning' = [scanning EXCEPT ![d] = NoTrack]
    /\ UNCHANGED <<calls, stopCall, lastBlock, locking, crashed, scanOpen, resampling, runtime>>

(* the loader and the scanner are clients of the same loading thread: a    *)
(* load runs between scans, the audio and control threads run at any time  *)
NextScan ==
    \/ PlayOnce
    \/ Seek
    \/ FadeOut
    \/ AudioCallback
    \/ NotScanning /\ LoaderTimeSlice
    \/ ScanSilence
    \/ ScanEnding

SpecScan == Init /\ [][NextScan]_vars

(* the anchors of deck d's track as the load leaves them, and as a         *)
(* completed scan of the track leaves them                                 *)
PreScanAnchors(d) == <<Tracks[reader[d]].total, Tracks[reader[d]].total>>

PostScanAnchors(d) ==
    LET a == scanTrackInternal([State EXCEPT
                                   !.lastAudible[d] = Tracks[reader[d]].total,
                                   !.totalSamplesToPlay[d] = Tracks[reader[d]].total], d)
    IN  <<a.lastAudible[d], a.totalSamplesToPlay[d]>>

(* C30: whatever the other threads read of a loaded deck's anchors while   *)
(* the scan runs, lastAudibleSoundPosition and totalSamplesToPlay are      *)
(* both the values the load stored or both the values the scan stores,     *)
(* never one of each                                                       *)
C30_ScanPublishedAtomically ==
    \A d \in Decks :
        reader[d] # NoTrack =>
            <<lastAudible[d], totalSamplesToPlay[d]>> \in {PreScanAnchors(d), PostScanAnchors(d)}

(* the two steps of the scan, run without another thread in between, are   *)
(* the scan                                                                *)
ScanStepsAreTheScan ==
    \A d \in Decks :
        doScan[d] /\ NotScanning =>
            scanTrackInternal(State, d) =
                IF scanFindsSilence(State, d)
                THEN scanEnding(scanSilence(State, d), d, file[d])
                ELSE scanSilence(State, d)

-----------------------------------------------------------------------------
(* callbackLock and the accesses to what it guards.  A handler is the      *)
(* list, in program order, of its ScopedLock scopes and of its reads and   *)
(* writes of deckQueue, transitionState and the listener list.             *)

Lock == <<"lock", "callbackLock">>
Unlock == <<"unlock", "callbackLock">>
Read(resource) == <<"read", resource>>
Write(resource) == <<"write", resource>>

(* Medley::getMainDeck: deckQueue.empty() ? nullptr : deckQueue.front(),   *)
(* which is all that setPositionInSeconds, getDuration and                 *)
(* getPositionInSeconds touch of the three                                 *)
getMainDeck_accesses == << Read("deckQueue") >>

(* Medley::deckStarted *)
deckStarted_accesses == << Lock, Read("listeners"), Unlock >>

(* Medley::deckFinished *)
deckFinished_accesses == << Lock, Read("listeners"), Unlock >>

(* Medley::deckLoaded *)
deckLoaded_accesses ==
    << Lock, Write("deckQueue"), Read("deckQueue"), Read("listeners"), Unlock >>

(* Medley::deckUnloaded; transiting: the sender is the transiting deck *)
deckUnloaded_accesses(transiting) ==
    (IF transiting THEN << Read("transitionState"), Write("transitionState") >> ELSE << >>)
    \o << Lock, Write("deckQueue"), Read("deckQueue"), Read("listeners"), Unlock >>

(* Medley::deckPosition; senderIsMain: the sender is the main deck, and    *)
(* the event is one that takes the controller from Idle into the          *)
(* transition                                                              *)
deckPosition_accesses(senderIsMain) ==
    << Lock, Read("listeners"), Unlock >>
    \o (IF senderIsMain
        THEN << Read("transitionState"), Read("transitionState"), Write("transitionState"),
                Lock, Read("listeners"), Unlock,
                Write("transitionState"),
                Read("transitionState"), Write("transitionState"),
                Read("transitionState"), Read("transitionState") >>
        ELSE << Read("deckQueue"), Read("deckQueue") >>)

(* Medley::fadeOutMainDeck with a main deck; inTransit: it unloads the     *)
(* main deck, which is the transiting deck                                 *)
fadeOutMainDeck_accesses(inTransit) ==
    getMainDeck_accesses \o << Read("transitionState") >>
    \o (IF inTransit
        THEN deckUnloaded_accesses(TRUE) \o << Write("transitionState") >> \o getMainDeck_accesses
        ELSE << >>)

(* Medley::stop: both decks unload *)
stop_accesses(transiting) ==
    deckUnloaded_accesses(transiting) \o deckUnloaded_accesses(FALSE)

(* Medley::addListener, Medley::removeListener *)
addListener_accesses == << Lock, Write("listeners"), Unlock >>

(* what each thread can be calling in the engine's present state: the      *)
(* audio thread the position, finished and unloaded events of a deck, the  *)
(* loading thread the loaded and started events of a deck it loads, the    *)
(* control thread the public operations                                    *)
Handlers(t) ==
    CASE t = "audio" ->
            {deckPosition_accesses(main[d]) : d \in {e \in Decks : playing[e]}}
            \cup {deckFinished_accesses : d \in {e \in Decks : playing[e]}}
            \cup {deckUnloaded_accesses(d = transitingDeck) :
                      d \in {e \in Decks : reader[e] # NoTrack}}
      [] t = "loader" ->
            {deckLoaded_accesses : d \in {e \in Decks : loaderFile[e] # NoTrack}}
            \cup {deckStarted_accesses :
                      d \in {e \in Decks : loaderFile[e] # NoTrack /\ playAfterLoading[e]}}
      [] t = "control" ->
            {fadeOutMainDeck_accesses(transitionState = Transit) :
                      d \in {e \in Decks : deckQueue # << >> /\ e = Head(deckQueue)}}
            \cup {stop_accesses(deck1 = transitingDeck),
                  getMainDeck_accesses, addListener_accesses}

(* no thread is inside a handler *)
NoHandler == locking = NoLocking

(* the engine's own state stays as it is while the accesses are followed *)
LockingFrame ==
    /\ Becomes(State)
    /\ UNCHANGED <<calls, stopCall, lastBlock, scanning, crashed, scanOpen, resampling, runtime>>

(* thread t enters one of its handlers *)
Enter(t) ==
    /\ locking.at[t] = << >>
    /\ \E h \in Handlers(t) : locking' = [locking EXCEPT !.at[t] = h, !.last = NoAccess]
    /\ LockingFrame

(* ScopedLock sl(callbackLock): the thread waits until the lock is free *)
Acquire(t) ==
    /\ locking.at[t] # << >>
    /\ Head(locking.at[t]) = Lock
    /\ locking.owner = "none"
    /\ locking' = [locking EXCEPT !.owner = t, !.at[t] = Tail(@), !.last = NoAccess]
    /\ LockingFrame

(* the end of the ScopedLock's scope *)
Release(t) ==
    /\ locking.at[t] # << >>
    /\ Head(locking.at[t]) = Unlock
    /\ locking' = [locking EXCEPT !.owner = "none", !.at[t] = Tail(@), !.last = NoAccess]
    /\ LockingFrame

(* the thread's next read or write *)
Access(t) ==
    /\ locking.at[t] # << >>
    /\ Head(locking.at[t])[1] \in {"read", "write"}
    /\ locking' = [locking EXCEPT
                      !.at[t] = Tail(@),
                      !.last = [thread |-> t, kind |-> Head(locking.at[t])[1],
                                resource |-> Head(locking.at[t])[2],
                                held |-> locking.owner = t]]
    /\ LockingFrame

(* the engine moves on between the handlers whose accesses are followed *)
NextLocking ==
    \/ \E t \in Threads :
           \/ Enter(t)
           \/ Acquire(t)
           \/ Release(t)
           \/ Access(t)
    \/ NoHandler /\ PlayOnce
    \/ NoHandler /\ FadeOut
    \/ NoHandler /\ AudioCallback
    \/ NoHandler /\ LoaderTimeSlice

(* a queue of track 1 followed by track 2 *)
InitLocking == InitWith({<<1, 2>>})

SpecLocking == InitLocking /\ [][NextLocking]_vars

(* C28: every read and write of deckQueue, transitionState and the         *)
(* listener list, by any thread, is made by a thread that holds            *)
(* callbackLock                                                            *)
C28_AccessesUnderCallbackLock ==
    locking.last.kind \in {"read", "write"} => locking.last.held

(* callbackLock is held by one thread, and by that thread inside a scope *)
CallbackLockExcludes ==
    /\ locking.owner # "none" =>
           /\ locking.at[locking.owner] # << >>
           /\ \E i \in 1..Len(locking.at[locking.owner]) :
                  /\ locking.at[locking.owner][i] = Unlock
                  /\ \A j \in 1..(i - 1) : locking.at[locking.owner][j] # Lock
    /\ \A t \in Threads :
           (locking.at[t] # << >> /\ Head(locking.at[t]) = Unlock) => locking.owner = t

(* the accesses made inside a ScopedLock scope are made with the lock held *)
ScopedAccessesHeld ==
    \A t \in Threads :
        (locking.owner = t /\ locking.last.thread = t /\ locking.last.resource = "listeners")
            => locking.last.held

-----------------------------------------------------------------------------
(* The scan whose second reader does not open *)

(* file.existsAsFile() is false: scanTrackInternal does nothing and the    *)
(* scheduler clears doScan                                                 *)
scanMissingFile(s, d) == [s EXCEPT !.doScan[d] = FALSE]

(* what a scan can read through the null scanningReader when the process   *)
(* survives the read: any length and any answers of the level searches     *)
NullReaderReads == {0, Tracks[1].last, Tracks[1].total + 1}

(* the loading thread runs a scheduled scan and the second reader opens *)
ScanOpened(d) ==
    /\ ~crashed
    /\ doScan[d]
    /\ Becomes(scanTrackInternal(State, d))
    /\ scanOpen' = [scanOpen EXCEPT ![d] = "opened"]
    /\ UNCHANGED <<calls, stopCall, lastBlock, scanning, locking, crashed, resampling, runtime>>

(* the loading thread runs a scheduled scan and the file is gone *)
ScanMissingFile(d) ==
    /\ ~crashed
    /\ doScan[d] /\ reader[d] # NoTrack
    /\ Becomes(scanMissingFile(State, d))
    /\ scanOpen' = [scanOpen EXCEPT ![d] = "missing"]
    /\ UNCHANGED <<calls, stopCall, lastBlock, scanning, locking, crashed, resampling, runtime>>

(* the loading thread runs a scheduled scan, the file exists and           *)
(* createReaderFor answers nullptr: scanningReader->lengthInSamples reads  *)
(* through the null pointer, which either kills the process or yields      *)
(* whatever is in memory there                                             *)
ScanNullReader(d) ==
    /\ ~crashed
    /\ doScan[d] /\ reader[d] # NoTrack
    /\ \/ /\ crashed' = TRUE
          /\ Becomes(State)
       \/ /\ crashed' = FALSE
          /\ \E silencePosition, endPosition \in NullReaderReads :
                 Becomes(scanTrackInternalWith(State, d, silencePosition, endPosition))
    /\ scanOpen' = [scanOpen EXCEPT ![d] = "null"]
    /\ UNCHANGED <<calls, stopCall, lastBlock, scanning, locking, resampling, runtime>>

(* the engine runs while the process is alive; a scan opens its reader,    *)
(* finds the file gone, or gets no reader                                  *)
NextScanOpen ==
    \/ ~crashed /\ PlayOnce
    \/ ~crashed /\ AudioCallback
    \/ ~crashed /\ LoaderTimeSlice
    \/ \E d \in Decks : ScanOpened(d)
    \/ \E d \in Decks : ScanMissingFile(d)
    \/ \E d \in Decks : ScanNullReader(d)

SpecScanOpen == InitLongQueue /\ [][NextScanOpen]_vars

(* C31: a scan of a loaded track that cannot open its second reader ends   *)
(* without a fault, leaves the deck loaded and playing as it was, and      *)
(* leaves the anchors at first audible = 0, last audible = end of content  *)
(* = length of the track                                                   *)
C31_ScanOpenFailureFallsBack ==
    [][\A d \in Decks :
          (ScanMissingFile(d) \/ ScanNullReader(d))
          => /\ ~crashed'
             /\ reader'[d] = reader[d]
             /\ playing'[d] = playing[d]
             /\ firstAudible'[d] = 0
             /\ lastAudible'[d] = Tracks[reader[d]].total
             /\ totalSamplesToPlay'[d] = Tracks[reader[d]].total]_vars

(* what does hold when the file is gone: the scan changes nothing, and the *)
(* anchors stay as the load left them                                      *)
MissingFileKeepsLoadAnchors ==
    [][\A d \in Decks :
          ScanMissingFile(d)
          => /\ reader'[d] = reader[d] /\ playing'[d] = playing[d]
             /\ firstAudible'[d] = Max(0, Tracks[reader[d]].first)
             /\ lastAudible'[d] = Tracks[reader[d]].total
             /\ totalSamplesToPlay'[d] = Tracks[reader[d]].total]_vars

-----------------------------------------------------------------------------
(* A deck's resampler, the device format and the load *)

(* sample rates of devices and of files, in units of 100 Hz *)
DeviceRates == {441, 480}
SourceRates == {441, 480}

(* a resampling ratio a / b, and the ratio of a new ResamplingAudioSource *)
Ratio(a, b) == <<a, b>>
DefaultRatio == Ratio(1, 1)
SameRatio(r, a, b) == r[1] * b = r[2] * a

(* TrackBuffer::prepareToPlay, all of it under the deck's callbackLock *)
prepareToPlay(r, samplesPerBlockExpected, newSampleRate) ==
    LET r1 == [r EXCEPT !.sampleRate = newSampleRate, !.blockSize = samplesPerBlockExpected]
        r2 == IF r1.resamplerSource # NoResampler /\ r1.sourceSampleRate > 0
              THEN [r1 EXCEPT !.resamplerSource.ratio = Ratio(r1.sourceSampleRate, r1.sampleRate)]
              ELSE r1
    IN  [r2 EXCEPT !.isPrepared = TRUE]

(* TrackBuffer::setSource with a new source, up to the lock: the source's  *)
(* rate is stored and the new resampler is built, with its ratio set if    *)
(* the deck is prepared                                                    *)
setSourceBuild(r, rate) ==
    [r EXCEPT !.sourceSampleRate = rate,
              !.newResamplerSource =
                  [source |-> rate,
                   ratio |-> IF r.isPrepared THEN Ratio(rate, r.sampleRate) ELSE DefaultRatio],
              !.inSetSource = TRUE]

(* TrackBuffer::setSource, the block under the lock: the new sources are   *)
(* installed                                                               *)
setSourceInstall(r) ==
    [r EXCEPT !.resamplerSource = r.newResamplerSource,
              !.newResamplerSource = NoResampler,
              !.inSetSource = FALSE]

(* TrackBuffer::unloadTrackInternal: the resampler is deleted *)
deleteResampler(r) == [r EXCEPT !.resamplerSource = NoResampler]

(* TrackBuffer::releaseChainedResources *)
releaseChainedResources(r) == [r EXCEPT !.isPrepared = FALSE]

(* the engine's own state stays as it is *)
ResamplingFrame ==
    /\ Becomes(State)
    /\ UNCHANGED <<calls, stopCall, lastBlock, scanning, locking, crashed, scanOpen, runtime>>

(* the device (re)starts with a format *)
PrepareToPlay ==
    /\ \E rate \in DeviceRates, size \in BlockSizes :
           resampling' = prepareToPlay(resampling, size, rate)
    /\ ResamplingFrame

(* the device stops *)
ReleaseResources ==
    /\ resampling.isPrepared
    /\ resampling' = releaseChainedResources(resampling)
    /\ ResamplingFrame

(* the loading thread, in loadTrackInternal, enters setSource *)
SetSourceBuild ==
    /\ ~resampling.inSetSource
    /\ resampling.resamplerSource = NoResampler
    /\ \E rate \in SourceRates : resampling' = setSourceBuild(resampling, rate)
    /\ ResamplingFrame

(* the loading thread takes the lock and installs what it built *)
SetSourceInstall ==
    /\ resampling.inSetSource
    /\ resampling' = setSourceInstall(resampling)
    /\ ResamplingFrame

(* the deck unloads *)
DeleteResampler ==
    /\ ~resampling.inSetSource
    /\ resampling.resamplerSource # NoResampler
    /\ resampling' = deleteResampler(resampling)
    /\ ResamplingFrame

NextResampling ==
    \/ PrepareToPlay
    \/ ReleaseResources
    \/ SetSourceBuild
    \/ SetSourceInstall
    \/ DeleteResampler

SpecResampling == InitLocking /\ [][NextResampling]_vars

(* C32: whenever the deck is prepared and has a resampler installed, the   *)
(* resampler's ratio is the rate of its source over the device's present   *)
(* rate                                                                    *)
C32_ResamplerRatioFollowsDevice ==
    (resampling.isPrepared /\ resampling.resamplerSource # NoResampler)
        => SameRatio(resampling.resamplerSource.ratio,
                     resampling.resamplerSource.source, resampling.sampleRate)

(* what does hold: a resampler installed by a setSource that no device     *)
(* change interleaved with has the right ratio                             *)
UninterleavedInstallRatio ==
    [][(SetSourceBuild /\ resampling.isPrepared)
          => LET r == setSourceInstall(resampling')
             IN  SameRatio(r.resamplerSource.ratio, r.resamplerSource.source, r.sampleRate)]_vars

-----------------------------------------------------------------------------
(* The dispatch-loop worker shared by the engine instances *)

(* ensureWorker: workerRefCount++, and the worker is created and queued if *)
(* there is none                                                           *)
ensureWorker(r) == [r EXCEPT !.workerRefCount = @ + 1, !.worker = TRUE]

(* shutdownWorker: the dispatch loop is stopped and the pointer cleared *)
shutdownWorker(r) == [r EXCEPT !.worker = FALSE]

(* decWorkerRefCount: if (workerRefCount-- <= 0) shutdownWorker(); the     *)
(* test is made on the count before the decrement                          *)
decWorkerRefCount(r) ==
    LET r1 == [r EXCEPT !.workerRefCount = @ - 1]
    IN  IF r.workerRefCount <= 0 THEN shutdownWorker(r1) ELSE r1

(* the engine instances alive *)
LiveInstances == {i \in 1..MaxInstances : runtime.instances[i] = "live"}

(* the engine's own state stays as it is *)
RuntimeFrame ==
    /\ Becomes(State)
    /\ UNCHANGED <<calls, stopCall, lastBlock, scanning, locking, crashed, scanOpen, resampling>>

(* Medley::Medley with a queue: the worker is ensured and the engine built *)
Construct(i) ==
    /\ runtime.instances[i] = "none"
    /\ runtime' = [ensureWorker(runtime) EXCEPT !.instances[i] = "live"]
    /\ RuntimeFrame

(* Medley::Medley without a queue: the constructor throws a TypeError and  *)
(* returns before ensureWorker                                             *)
ConstructRejected(i) ==
    /\ runtime.instances[i] = "none"
    /\ runtime' = [runtime EXCEPT !.instances[i] = "rejected"]
    /\ RuntimeFrame

(* Medley::~Medley of a constructed engine *)
Destroy(i) ==
    /\ runtime.instances[i] = "live"
    /\ runtime' = [decWorkerRefCount(runtime) EXCEPT !.instances[i] = "destroyed"]
    /\ RuntimeFrame

NextRuntime ==
    \E i \in 1..MaxInstances :
        \/ Construct(i)
        \/ ConstructRejected(i)
        \/ Destroy(i)

SpecRuntime == InitLocking /\ [][NextRuntime]_vars

(* C33: the worker exists exactly while an engine instance is alive        *)
(* (created with the first, kept while there is one, shut down with the    *)
(* last), and workerRefCount is the number of live instances               *)
C33_WorkerRefCounted ==
    /\ runtime.workerRefCount = Cardinality(LiveInstances)
    /\ runtime.worker <=> LiveInstances # {}

(* what does hold: the count is the number of live instances, the worker   *)
(* exists while there is one, and once created it is never shut down by    *)
(* the count                                                               *)
WorkerNeverReleased ==
    /\ runtime.workerRefCount = Cardinality(LiveInstances)
    /\ LiveInstances # {} => runtime.worker
    /\ runtime.worker <=> \E i \in 1..MaxInstances : runtime.instances[i] \in {"live", "destroyed"}

-----------------------------------------------------------------------------
(* The state machine with both decks empty *)

(* neither deck holds a track *)
BothDecksEmpty == \A d \in Decks : reader[d] = NoTrack

(* C34: whenever neither deck holds a loaded track, the transition state   *)
(* is idle, however the decks were emptied                                 *)
C34_EmptyDecksIdle == BothDecksEmpty => transitionState = Idle

(* what does hold: with both decks empty the state is idle or a stale      *)
(* cueing, and no deck is the transiting deck                              *)
EmptyDecksIdleOrCueing ==
    BothDecksEmpty => transitionState \in {Idle, Cueing} /\ transitingDeck = NoDeck

-----------------------------------------------------------------------------
(* Decks that are loaded and never started *)

(* none of the engine's threads has anything left to do: the audio block   *)
(* changes nothing, no load and no scan is waiting; only a call of the     *)
(* control thread can change the state from here                           *)
EngineAtRest ==
    /\ ~paused
    /\ ~LoaderPending
    /\ \A d \in Decks : ~doScan[d]
    /\ ~AudioPending

(* decks holding a track that is not playing *)
LoadedNotStarted == {d \in Decks : reader[d] # NoTrack /\ ~playing[d]}

(* C35: while keepPlaying is true every loaded track is eventually started *)
(* or unloaded; so when the engine has come to rest with keepPlaying true, *)
(* no deck is left holding a track that is not playing                     *)
C35_LoadedDeckStarts == (keepPlaying /\ EngineAtRest) => LoadedNotStarted = {}

(* what does hold: a deck left loaded and idle is the one that was loaded  *)
(* without autoplay as the next deck, and no deck is playing beside it     *)
OnlyNextDeckLeftIdle ==
    (EngineAtRest /\ LoadedNotStarted # {})
        => \A d \in LoadedNotStarted :
              /\ ~playAfterLoading[d]
              /\ \A e \in Decks : ~playing[e]

-----------------------------------------------------------------------------
(* Tracks handed to a loader *)

(* the load waiting in deck d's loader is gone after this step and the     *)
(* deck has not loaded it                                                  *)
PendingLoadDropped(d) ==
    /\ loaderFile[d] # NoTrack
    /\ loaderFile'[d] # loaderFile[d]
    /\ ~(reader'[d] = loaderFile[d] /\ Len(log') > Len(log))

(* C36: a track fetched from the queue and accepted by a deck is loaded:   *)
(* short of stop(), no step (a second play(), a position event, the        *)
(* recovery after an unload) takes a waiting load away from its loader     *)
C36_NoTrackLost ==
    [][calls'["stop"] = calls["stop"] => \A d \in Decks : ~PendingLoadDropped(d)]_vars

(* what does hold: a track leaves the queue only to be handed to a loader  *)
(* or refused as unreadable, and the loader, when it runs, loads what it   *)
(* was handed                                                              *)
FetchedTrackHandedOver ==
    [][/\ (Len(queue') < Len(queue) /\ Tracks[queue[Len(queue) - Len(queue')]].readable)
           => \E d \in Decks : loaderFile'[d] = queue[Len(queue) - Len(queue')]
       /\ LoaderTimeSlice
           => \E d \in Decks : loaderFile[d] # NoTrack /\ reader'[d] = loaderFile[d]]_vars

-----------------------------------------------------------------------------
(* Medley::stop on the control thread, one statement at a time, with the   *)
(* audio and loading threads running between its statements.  stopCall     *)
(* holds the statement the control thread executes next and its deck.      *)

AtStatement(statement, d) == [deck |-> d, n |-> 0, slept |-> 0, pc |-> statement]

InMedleyStop == stopCall.pc \in {"stop", "unloadTrack"}

(* keepPlaying = false; stop() is called once, after the first play() *)
StopBegin ==
    /\ stopCall.pc = "none"
    /\ MayCall
    /\ calls["play"] = 1 /\ calls["stop"] = 0
    /\ Becomes([State EXCEPT !.keepPlaying = FALSE])
    /\ stopCall' = AtStatement("stop", deck1)
    /\ calls' = [calls EXCEPT !["stop"] = @ + 1]
    /\ UNCHANGED <<lastBlock, scanning, locking, crashed, scanOpen, resampling, runtime>>

(* deck1->stop(); deck2->stop(); *)
StopDeck ==
    /\ stopCall.pc = "stop"
    /\ \E o \in StopOutcomes : Becomes(stopAndWait(State, stopCall.deck, o))
    /\ stopCall' = IF stopCall.deck = deck1
                   THEN AtStatement("stop", deck2)
                   ELSE AtStatement("unloadTrack", deck1)
    /\ UNCHANGED <<calls, lastBlock, scanning, locking, crashed, scanOpen, resampling, runtime>>

(* deck1->unloadTrack(); deck2->unloadTrack(); *)
StopUnload ==
    /\ stopCall.pc = "unloadTrack"
    /\ Becomes(unloadTrack(State, stopCall.deck))
    /\ stopCall' = IF stopCall.deck = deck1
                   THEN AtStatement("unloadTrack", deck2)
                   ELSE NoStopCall
    /\ UNCHANGED <<calls, lastBlock, scanning, locking, crashed, scanOpen, resampling, runtime>>

NextStopRace ==
    \/ ~InMedleyStop /\ Play
    \/ ~InMedleyStop /\ FadeOut
    \/ StopBegin
    \/ StopDeck
    \/ StopUnload
    \/ AudioCallback
    \/ LoaderTimeSlice
    \/ ScannerTimeSlice

SpecStopRace == InitTwoTracks /\ [][NextStopRace]_vars

(* stop() has cleared keepPlaying and no play() has followed *)
Stopping == calls["stop"] = 1 /\ calls["play"] = 1 /\ ~keepPlaying

(* C37: from the moment stop() has cleared keepPlaying until the next      *)
(* play(), no step fetches a track from the queue and no deck comes to     *)
(* hold a track, however the statements of stop() interleave with the      *)
(* audio and loading threads                                               *)
C37_NothingLoadsAfterStop ==
    [][(Stopping /\ ~keepPlaying')
       => /\ queue' = queue
          /\ \A d \in Decks : reader'[d] # NoTrack => reader'[d] = reader[d]]_vars

(* what does hold: once stop() has returned, nothing is fetched or loaded  *)
(* until the next play()                                                   *)
NothingLoadsAfterStopReturned ==
    [][(Stopping /\ ~InMedleyStop /\ ~keepPlaying')
       => /\ queue' = queue
          /\ \A d \in Decks : reader'[d] = NoTrack]_vars

-----------------------------------------------------------------------------
(* Medley::play on the control thread, its test and its body as two steps, *)
(* with the audio and loading threads running in between                   *)

(* if (!isDeckPlaying()): with a deck playing the rest of play() touches   *)
(* no deck and is taken in the same step                                   *)
PlayCheck ==
    /\ stopCall.pc = "none"
    /\ MayCall
    /\ IF isDeckPlaying(State)
       THEN Becomes(Medley_play(State)) /\ stopCall' = stopCall
       ELSE Becomes(State) /\ stopCall' = AtStatement("loadNextTrack", NoDeck)
    /\ calls' = [calls EXCEPT !["play"] = @ + 1]
    /\ UNCHANGED <<lastBlock, scanning, locking, crashed, scanOpen, resampling, runtime>>

(* loadNextTrack(nullptr, true); keepPlaying = true; mixer.setPause(false) *)
PlayLoad ==
    /\ stopCall.pc = "loadNextTrack"
    /\ Becomes([loadNextTrack(State, NoDeck, TRUE).s EXCEPT !.keepPlaying = TRUE,
                                                             !.paused = FALSE])
    /\ stopCall' = NoStopCall
    /\ UNCHANGED <<calls, lastBlock, scanning, locking, crashed, scanOpen, resampling, runtime>>

NextPlayRace ==
    \/ PlayCheck
    \/ PlayLoad
    \/ AudioCallback
    \/ LoaderTimeSlice
    \/ ScannerTimeSlice

SpecPlayRace == InitTwoTracks /\ [][NextPlayRace]_vars

(* C38: both decks are playing at the same time only while the transition  *)
(* state is Transit: play(), the unload of a cued deck and the recovery    *)
(* after an unload never start a deck while the other one is playing       *)
C38_BothPlayingOnlyInTransit ==
    (playing[deck1] /\ playing[deck2]) => transitionState = Transit

(* what does hold under SpecPlayRace too: a deck is started beside a       *)
(* playing one, outside a transition, only by a load that play() asked     *)
(* for with autoplay                                                       *)
SecondDeckStartedByAutoplay ==
    [][\A d \in Decks :
          (/\ ~playing[d] /\ playing'[d]
           /\ \E e \in Decks : e # d /\ playing'[e]
           /\ transitionState' # Transit)
          => (loaderFile[d] # NoTrack /\ playAfterLoading[d] /\ calls["play"] > 1)]_vars

-----------------------------------------------------------------------------
(* Forced fades and empty decks *)

StopAgain ==
    /\ MayCallAgain
    /\ \E o1, o2 \in StopOutcomes : Becomes(Medley_stop(State, o1, o2))
    /\ Called("stop")

NextFadeAndStop ==
    \/ PlayOnce
    \/ FadeOutAgain
    \/ StopAgain
    \/ AudioCallback
    \/ LoaderTimeSlice
    \/ ScannerTimeSlice

SpecFadeAndStop == InitForcedFades /\ [][NextFadeAndStop]_vars

(* C39: the forced-fade counter is zero whenever both decks are empty,     *)
(* also after fade_out() and then stop() before the cue, after fade_out()  *)
(* twice on one track, and after fade_out() during a transition            *)
C39_CounterZeroWhenEmpty == BothDecksEmpty => forceFadingOut = 0

(* what does hold: after a single fade_out() and no stop() the counter is  *)
(* zero when both decks are empty, and it never exceeds the fade_out()     *)
(* calls made                                                              *)
SingleFadeCounterZeroWhenEmpty ==
    /\ forceFadingOut >= 0 /\ forceFadingOut <= calls["fadeOut"]
    /\ (BothDecksEmpty /\ calls["fadeOut"] <= 1 /\ calls["stop"] = 0) => forceFadingOut = 0

-----------------------------------------------------------------------------
(* The volume of a deck started after loading *)

(* the loader completes a load with autoplay on deck d in this step and    *)
(* the deck starts                                                         *)
StartedAfterLoading(d) ==
    /\ loaderFile[d] # NoTrack /\ playAfterLoading[d]
    /\ ~playing[d] /\ playing'[d]
    /\ reader'[d] = loaderFile[d]

(* C40: a deck started with autoplay, by play() or by the recovery after   *)
(* an unload, plays at volume 1.0: the volume it was faded down to as the  *)
(* outgoing deck of an earlier transition does not carry over              *)
C40_AutoplayAtFullVolume ==
    [][\A d \in Decks : StartedAfterLoading(d) => gain'[d] = VolScale]_vars

(* what does hold: completing a load and starting the deck leave its      *)
(* volume as it was                                                        *)
StartKeepsVolume ==
    [][\A d \in Decks : StartedAfterLoading(d) => gain'[d] = gain[d]]_vars

====
